---- MODULE Spec2Model ----
(***************************************************************************)
(* ScoreScan: the job pipeline of backend/app.                             *)
(*                                                                         *)
(*   routers/jobs.py          create_job (validation, job row, enqueue)    *)
(*   tasks/process_score.py   update_job_status, process_score_task        *)
(*   services/omr.py          OMRService.process_image                     *)
(*   services/transpose.py    TransposeService                             *)
(*   services/pdf.py          PDFService.convert_to_pdf                    *)
(*   tasks/__init__.py        the worker's task time limits                *)
(*                                                                         *)
(* All jobs belong to one user, so they share the output directory         *)
(* musicxml/<user_id>/.  The external engines, the database and the        *)
(* broker are the environment: their outcomes are nondeterministic.        *)
(***************************************************************************)
EXTENDS Integers, Sequences, FiniteSets, TLC

\* ------------------------------------------------------------------------
\* Values
\* ------------------------------------------------------------------------

\* Job ids (uuid4 strings) of one user: "j0" is a job of an earlier session,
\* "j1" the id create_job draws.
Jobs == {"j0", "j1"}
NewIds == {"j1"}

\* Python's Optional: None is the empty tuple, a present value a 1-tuple.
None == <<>>
Some(x) == <<x>>

\* JobStatus (models/job.py).
PENDING == "pending"
PROCESSING == "processing"
COMPLETED == "completed"
FAILED == "failed"
JobStatus == {PENDING, PROCESSING, COMPLETED, FAILED}

\* Python truthiness of an Optional[int]: None and 0 are falsy.
TruthyInt(o) == o # None /\ o[1] # 0

\* Python truthiness of an Optional[str]: None and "" are falsy.
TruthyStr(o) == o # None /\ o[1] # ""

\* Python truthiness of an Optional path (paths are never empty here).
TruthyPath(o) == o # None

\* str.startswith
StartsWith(s, p) == Len(s) >= Len(p) /\ SubSeq(s, 1, Len(p)) = p

\* ------------------------------------------------------------------------
\* Error messages.  A message is a sequence of characters; the variable
\* part of a message (the engine's stderr, str(e)) is one opaque element.
\* ------------------------------------------------------------------------

\* f"Processing error: {str(e)}"              process_score.py:156
ProcessingError == <<"P", "r", "o", "c", "e", "s", "s", "i", "n", "g", " ", "e", "r", "r", "o", "r", ":", " ">>
\* f"Score recognition failed: {error}"       process_score.py:89
ScoreRecognitionFailed_unlabelled == ProcessingError
ScoreRecognitionFailed == <<"S", "c", "o", "r", "e", " ", "r", "e", "c", "o", "g", "n", "i", "t", "i", "o", "n", " ", "f", "a", "i", "l", "e", "d", ":", " ">>
\* f"Transposition failed: {error}"           process_score.py:118
TranspositionFailed == <<"T", "r", "a", "n", "s", "p", "o", "s", "i", "t", "i", "o", "n", " ", "f", "a", "i", "l", "e", "d", ":", " ">>
\* f"PDF conversion failed: {error}"          process_score.py:138
PDFConversionFailed == <<"P", "D", "F", " ", "c", "o", "n", "v", "e", "r", "s", "i", "o", "n", " ", "f", "a", "i", "l", "e", "d", ":", " ">>

\* The messages the services return (omr.py:195,238,246; pdf.py:76,81;
\* transpose.py:118,171) and str(e) of an exception of the database layer.
NoOutputMsg == <<"No MusicXML output file found. Audiveris return code: ...">>
OmrTimeoutMsg == <<"OMR processing timed out (exceeded 5 minutes)">>
OmrErrorMsg == <<"OMR processing error: ...">>
AudiverisNotFoundMsg == <<"Audiveris not found at ...">>
TransposeErrorMsg == <<"Transposition error: ...">>
NoPdfMsg == <<"MuseScore failed to produce PDF: ...">>
PdfTimeoutMsg == <<"PDF conversion timed out (exceeded 2 minutes)">>
MuseScoreNotFoundMsg == <<"MuseScore not found at ...">>
DbErrorMsg == <<"(sqlalchemy error)">>

\* ------------------------------------------------------------------------
\* The output directory musicxml/<user_id>/ and the files in it.
\* A file name is <stem><ext>; the stem is the job id, followed by
\* "_preprocessed" for the scratch image of that job.
\* ------------------------------------------------------------------------

\* The extension of the uploaded image (one of settings.allowed_extensions).
ImageExt == ".png"

Name(j, pre, ext) == [job |-> j, pre |-> pre, ext |-> ext]

\* get_musicxml_path_with_ext(user_id, job_id, ext): musicxml/<user>/<job><ext>
get_musicxml_path_with_ext(j, ext) == Name(j, FALSE, ext)

\* get_pdf_output_path(user_id, job_id): pdf/<user>/<job>.pdf
get_pdf_output_path(j) == [pdf |-> j]

\* shutil.move(src, dst) inside one directory: dst is replaced.
Move(dir, src, dst) ==
    [n \in (DOMAIN dir \ {src}) \cup {dst} |-> IF n = dst THEN dir[src] ELSE dir[n]]

\* os.remove(name)
Remove(dir, name) == [n \in DOMAIN dir \ {name} |-> dir[n]]

\* open(name, "wb").write(content)
WriteFile(dir, name, content) ==
    [n \in DOMAIN dir \cup {name} |-> IF n = name THEN content ELSE dir[n]]

\* ------------------------------------------------------------------------
\* Output discovery (omr.py:160-192)
\* ------------------------------------------------------------------------

\* possible_outputs: the base-name candidates, in the order they are tried.
possible_outputs_plain_form_first(stem) ==
    << [job |-> stem.job, pre |-> stem.pre, ext |-> ".musicxml"],
       [job |-> stem.job, pre |-> stem.pre, ext |-> ".mxl"],
       [job |-> stem.job, pre |-> stem.pre, ext |-> ".xml"] >>
possible_outputs(stem) ==
    << [job |-> stem.job, pre |-> stem.pre, ext |-> ".mxl"],
       [job |-> stem.job, pre |-> stem.pre, ext |-> ".musicxml"],
       [job |-> stem.job, pre |-> stem.pre, ext |-> ".xml"] >>

\* The first base-name candidate that exists, or None (omr.py:170-176).
ProbeByName(dir, stem) ==
    LET c == possible_outputs(stem)
        hits == {i \in 1..Len(c) : c[i] \in DOMAIN dir}
    IN  IF hits = {} THEN None
        ELSE Some(c[CHOOSE i \in hits : \A k \in hits : i <= k])

\* The files the directory scan accepts (omr.py:180-192).  No file name of
\* this directory starts with "container": every stem starts with a uuid.
ScanMatches(dir) == {n \in DOMAIN dir : n.ext \in {".mxl", ".musicxml", ".xml"}}

\* The output files discovery may select: the base-name hit if there is
\* one; otherwise the first match in os.listdir order, which is arbitrary,
\* so any match.  The empty set: no output file found.
DiscoverOutput(dir, stem) ==
    IF ProbeByName(dir, stem) # None THEN {ProbeByName(dir, stem)[1]}
    ELSE ScanMatches(dir)

\* ------------------------------------------------------------------------
\* update_job_status (process_score.py:15-40), as a function of the row.
\* ------------------------------------------------------------------------

update_job_status_drops_pdf_path(row, status, progress, error_message, musicxml_path, pdf_path, now) ==
    [row EXCEPT
        !.status = status,
        !.progress = progress,
        !.error_message = IF error_message # None /\ error_message[1] # <<>>
                          THEN error_message ELSE @,
        !.musicxml_path = IF TruthyPath(musicxml_path) THEN musicxml_path ELSE @,
        !.completed_at = IF status \in {COMPLETED, FAILED} THEN Some(now) ELSE @]

update_job_status_stamps_every_write(row, status, progress, error_message, musicxml_path, pdf_path, now) ==
    [row EXCEPT
        !.status = status,
        !.progress = progress,
        !.error_message = IF error_message # None /\ error_message[1] # <<>>
                          THEN error_message ELSE @,
        !.musicxml_path = IF TruthyPath(musicxml_path) THEN musicxml_path ELSE @,
        !.pdf_path = IF TruthyPath(pdf_path) THEN pdf_path ELSE @,
        !.completed_at = Some(now)]

update_job_status_drops_error_message(row, status, progress, error_message, musicxml_path, pdf_path, now) ==
    [row EXCEPT
        !.status = status,
        !.progress = progress,
        !.musicxml_path = IF TruthyPath(musicxml_path) THEN musicxml_path ELSE @,
        !.pdf_path = IF TruthyPath(pdf_path) THEN pdf_path ELSE @,
        !.completed_at = IF status \in {COMPLETED, FAILED} THEN Some(now) ELSE @]

update_job_status(row, status, progress, error_message, musicxml_path, pdf_path, now) ==
    [row EXCEPT
        !.status = status,
        !.progress = progress,
        !.error_message = IF error_message # None /\ error_message[1] # <<>>
                          THEN error_message ELSE @,
        !.musicxml_path = IF TruthyPath(musicxml_path) THEN musicxml_path ELSE @,
        !.pdf_path = IF TruthyPath(pdf_path) THEN pdf_path ELSE @,
        !.completed_at = IF status \in {COMPLETED, FAILED} THEN Some(now) ELSE @]

\* ------------------------------------------------------------------------
\* State
\* ------------------------------------------------------------------------

VARIABLES
    job,        \* the jobs table: job id -> row
    queue,      \* the broker: the process_score messages not yet delivered
    run,        \* job id -> the worker's run of process_score_task for it
    outdir,     \* musicxml/<user>/: file name -> content
    pdfdir,     \* pdf/<user>/: the job ids whose <job>.pdf exists
    writes,     \* job id -> the writes the current run has committed
    calls,      \* job id -> the engine and capability invocations of the run
    clock,      \* job id -> number of commits to the row (datetime.utcnow)
    redelivered, \* number of messages the broker has delivered a second time
    uploads,    \* uploads/<user>/: the job ids whose <job><ext> exists
    req,        \* the create_job request in progress: its locals
    pre,        \* a call of a method that is studied on its own: its arguments,
                \* its position and its result
    users,      \* the users table: user id -> row
    tokens,     \* the password_reset_tokens table: token -> row
    confirm     \* the confirm_password_reset requests: request -> its locals

\* The state of the pipeline, and the state of the components that are
\* modelled on their own.
pipeline ==
    <<job, queue, run, outdir, pdfdir, writes, calls, clock, redelivered, uploads>>
accounts == <<users, tokens, confirm>>
aux == <<req, pre, accounts>>

vars == <<pipeline, aux>>

\* No request in progress, no call.
NoReq == [pc |-> "idle"]
NoPre == [pc |-> "idle"]

\* The accounts after create_superuser.py has created "admin"
\* (create_superuser.py:89-96) and two users have registered with the
\* column defaults (models/user.py:15-17), one of them approved since; no
\* password reset was requested yet.
InitialUsers ==
    [id \in {"admin", "u1", "u2"} |->
        [hashed_password |-> <<"bcrypt", id>>,
         is_approved |-> id # "u1",
         is_superuser |-> id = "admin"]]

AccountsIdle ==
    /\ users = InitialUsers
    /\ tokens = <<>>
    /\ confirm = [c \in {"c1", "c2"} |-> [pc |-> "idle"]]   \* two requests, not begun

\* The largest number of lines cv2.HoughLines returns in the model.
MaxLines == 3

\* The largest number of contours cv2.findContours returns in the model.
MaxContours == 6

\* The largest pixel coordinate of a contour point in the model.
MaxCoordinate == 2

\* The largest number of members of an archive in the model.
MaxMembers == 3

\* The locals of a run of process_score_task that has not started.
NoRun ==
    [pc |-> "idle",
     transpose_semitones |-> None, transpose_from_key |-> None,
     transpose_to_key |-> None,
     preprocess |-> "none",   \* preprocess_for_omr: "none", "ok", "error"
     engine |-> "none",       \* Audiveris: "none", "timeout", "notfound", "exit"
     returncode |-> None,     \* result.returncode of Audiveris, once it exited
     produced |-> FALSE,      \* Audiveris wrote an output file
     found |-> None,          \* output_file: the file discovery selected
     extracted |-> "none",    \* _extract_mxl_to_musicxml: "none", "ok", "fail"
     omr |-> "none",          \* process_image returned: "none", "ok", "fail"
     transpose |-> "none",    \* the transposition returned
     musescore |-> <<>>,      \* what each invocation of MuseScore did, in order
     pdf |-> "none",          \* convert_to_pdf returned
     musicxml_path |-> None, pdf_path |-> None,
     error |-> <<>>,          \* the error a stage returned, or str(e)
     raised |-> FALSE]        \* an exception reached the handler (line 153)

\* Job(...) with the column defaults of models/job.py.
NewJob(semitones, from_key, to_key, task_id) ==
    [status |-> PENDING, progress |-> 0,
     musicxml_path |-> None, pdf_path |-> None,
     transpose_semitones |-> semitones,
     transpose_from_key |-> from_key, transpose_to_key |-> to_key,
     error_message |-> None, completed_at |-> None,
     celery_task_id |-> task_id]

\* The system before its first request.
Fresh ==
    /\ job = <<>>
    /\ outdir = <<>>
    /\ pdfdir = {}
    /\ uploads = {}
    /\ clock = [j \in Jobs |-> 0]

\* The system after an earlier job "j0" of the user, without transposition,
\* ran to Completed: its row after the six writes of the run, and its
\* result files <job>.musicxml and <job>.pdf.
AfterEarlierJob ==
    /\ job = ("j0" :> [NewJob(None, None, None, Some("j0")) EXCEPT
                         !.status = COMPLETED, !.progress = 100,
                         !.musicxml_path = Some(get_musicxml_path_with_ext("j0", ".musicxml")),
                         !.pdf_path = Some(get_pdf_output_path("j0")),
                         !.completed_at = Some(6)])
    /\ outdir = (get_musicxml_path_with_ext("j0", ".musicxml")
                   :> [by |-> "j0", form |-> "xml"])
    /\ pdfdir = {"j0"}
    /\ uploads = {"j0"}
    /\ clock = [j \in Jobs |-> IF j = "j0" THEN 6 ELSE 0]

Init ==
    /\ Fresh \/ AfterEarlierJob
    /\ queue = {}
    /\ run = [j \in Jobs |-> NoRun]
    /\ writes = [j \in Jobs |-> <<>>]
    /\ calls = [j \in Jobs |-> <<>>]
    /\ redelivered = 0
    /\ req = NoReq /\ pre = NoPre
    /\ AccountsIdle

\* ------------------------------------------------------------------------
\* create_job (routers/jobs.py:45-137)
\* ------------------------------------------------------------------------

\* The uploads a request may carry: the file name (stem and extension; the
\* empty name when no file name was sent) and whether the content exceeds
\* settings.max_upload_size_mb.
FileInputs ==
    {[stem |-> "score", ext |-> "png", too_large |-> FALSE],
     [stem |-> "score", ext |-> "png", too_large |-> TRUE],
     [stem |-> "score", ext |-> "txt", too_large |-> FALSE],
     [stem |-> "", ext |-> "", too_large |-> FALSE]}

\* settings.allowed_extensions (config.py:37)
allowed_extensions == {"png", "jpg", "jpeg", "pdf", "tiff", "tif"}

\* The validation of the upload (jobs.py:60-80): TRUE when the request is
\* rejected with 400.
RejectsFile(file) ==
    \/ file.stem = "" /\ file.ext = ""
    \/ file.ext \notin allowed_extensions
    \/ file.too_large

\* The form values a request may carry.
SemitoneInputs == {None, Some(0), Some(2), Some(13)}
FromKeyInputs == {None, Some("C")}
ToKeyInputs == {None, Some("G")}

\* The validation of the transposition options (jobs.py:85-99): TRUE when
\* the request is rejected with 400.
RejectsTranspose_unless_keys_paired(semitones, from_key, to_key) ==
    (TruthyStr(from_key) /\ ~TruthyStr(to_key)) \/ (TruthyStr(to_key) /\ ~TruthyStr(from_key))
RejectsTranspose(semitones, from_key, to_key) ==
    \/ semitones # None /\ (semitones[1] < -12 \/ semitones[1] > 12)
    \/ (TruthyStr(from_key) /\ ~TruthyStr(to_key))
    \/ (TruthyStr(to_key) /\ ~TruthyStr(from_key))

\* The message process_score_task.delay(...) puts on the broker.
TaskMessage(j, semitones, from_key, to_key) ==
    [job_id |-> j, transpose_semitones |-> semitones,
     transpose_from_key |-> from_key, transpose_to_key |-> to_key]

\* The row is committed at line 120; then process_score_task.delay(...)
\* (line 124) puts the message on the broker and the task id is committed
\* (lines 134-135), or delay raises because the broker cannot be reached,
\* the request fails and the committed row remains.
create_job(j, file, semitones, from_key, to_key) ==
    /\ j \in NewIds /\ j \notin DOMAIN job    \* uuid4: a fresh id
    /\ IF RejectsFile(file) \/ RejectsTranspose(semitones, from_key, to_key)
       THEN UNCHANGED vars
       ELSE /\ \/ /\ job' = job @@ (j :> NewJob(semitones, from_key, to_key, Some(j)))
                  /\ queue' = queue \cup {TaskMessage(j, semitones, from_key, to_key)}
               \/ /\ job' = job @@ (j :> NewJob(semitones, from_key, to_key, None))
                  /\ UNCHANGED queue
            /\ uploads' = uploads \cup {j}          \* line 105: save_upload_file
            /\ UNCHANGED <<run, outdir, pdfdir, writes, calls, clock, redelivered, aux>>

\* ------------------------------------------------------------------------
\* The read handlers (routers/jobs.py:27-42,194-268).  They change nothing;
\* each is given by what it answers in the current state.
\* ------------------------------------------------------------------------

\* job_to_response: the fields of JobResponse computed from the row.
job_to_response(row) ==
    [status |-> row.status,
     progress |-> row.progress,
     error_message |-> row.error_message,
     completed_at |-> row.completed_at,
     has_pdf |-> row.pdf_path # None,
     has_musicxml |-> row.musicxml_path # None]

\* download_pdf: the HTTP status of the answer.
download_pdf(j) ==
    IF j \notin DOMAIN job THEN 404
    ELSE IF job[j].status # COMPLETED THEN 400
    ELSE IF ~TruthyPath(job[j].pdf_path) THEN 404
    ELSE IF job[j].pdf_path[1].pdf \notin pdfdir THEN 404
    ELSE 200

\* download_musicxml: the HTTP status of the answer.
download_musicxml(j) ==
    IF j \notin DOMAIN job THEN 404
    ELSE IF ~TruthyPath(job[j].musicxml_path) THEN 404
    ELSE IF job[j].musicxml_path[1] \notin DOMAIN outdir THEN 404
    ELSE 200

\* ------------------------------------------------------------------------
\* process_score_task (tasks/process_score.py:43-158), one action per step.
\* The pc of a run is the source line it is about to execute.
\* ------------------------------------------------------------------------

ActivePc == {"L73", "L77", "L80", "L148", "L163", "L84", "L98", "L104",
             "L113", "L126", "L129", "L133", "L153"}
EndedPc == {"done", "raised", "killed"}

\* The worker takes the message from the broker and starts the task.
Deliver(j) ==
    /\ run[j].pc = "idle"
    /\ \E m \in queue :
        /\ m.job_id = j
        /\ queue' = queue \ {m}
        /\ run' = [run EXCEPT ![j] =
                     [NoRun EXCEPT !.pc = "L73",
                        !.transpose_semitones = m.transpose_semitones,
                        !.transpose_from_key = m.transpose_from_key,
                        !.transpose_to_key = m.transpose_to_key]]
    /\ UNCHANGED <<job, outdir, pdfdir, writes, calls, clock, redelivered, uploads, aux>>

\* A call update_job_status(job_id, status, progress, ...) in the try body
\* (lines 71-151): the row is updated and committed and the run goes on at
\* `next`, or the database layer raises, nothing is committed and the run
\* goes on in the handler of line 153.
StatusWrite(j, status, progress, error_message, musicxml_path, pdf_path, next) ==
    \/ /\ job' = IF j \in DOMAIN job
                 THEN [job EXCEPT ![j] = update_job_status(job[j], status, progress,
                          error_message, musicxml_path, pdf_path, clock[j] + 1)]
                 ELSE job
       /\ clock' = [clock EXCEPT ![j] = @ + 1]
       /\ writes' = [writes EXCEPT ![j] =
                        Append(@, [status |-> status, progress |-> progress])]
       /\ run' = [run EXCEPT ![j].pc = next]
       /\ UNCHANGED <<queue, outdir, pdfdir, calls, redelivered, uploads, aux>>
    \/ /\ run' = [run EXCEPT ![j].pc = "L153", ![j].raised = TRUE,
                             ![j].error = DbErrorMsg]
       /\ UNCHANGED <<job, queue, outdir, pdfdir, writes, calls, clock, redelivered, uploads, aux>>

\* line 73: update_job_status(job_id, PROCESSING, progress=0)
Processing0(j) ==
    /\ run[j].pc = "L73"
    /\ StatusWrite(j, PROCESSING, 0, None, None, None, "L77")

\* line 77: update_job_status(job_id, PROCESSING, progress=10)
Progress10(j) ==
    /\ run[j].pc = "L77"
    /\ StatusWrite(j, PROCESSING, 10, None, None, None, "L80")

\* ---- OMRService.process_image (services/omr.py:85-248) ------------------

\* The stem of processed_input_path (omr.py:111-126,163).
InputStem(j) == [job |-> j, pre |-> run[j].preprocess = "ok"]

\* omr.py:110-130: preprocess_for_omr writes the scratch image
\* <stem>_preprocessed<suffix> into the output directory, or returns an
\* error, and then the original image is used.  cv2.imread returns None
\* for an upload that is not there.
Preprocess(j) ==
    /\ run[j].pc = "L80"
    /\ \E ok \in BOOLEAN :
        /\ ok => j \in uploads
        /\ run' = [run EXCEPT ![j].pc = "L148",
                      ![j].preprocess = IF ok THEN "ok" ELSE "error"]
        /\ outdir' = IF ok
                     THEN WriteFile(outdir, Name(j, TRUE, ImageExt),
                                    [by |-> j, form |-> "image"])
                     ELSE outdir
    /\ UNCHANGED <<job, queue, pdfdir, writes, calls, clock, redelivered, uploads, aux>>

\* What process_image returns: (success, output_path, error_message).
OmrReturn(j, success, path, error) ==
    [run EXCEPT ![j].pc = "L84",
                ![j].omr = IF success THEN "ok" ELSE "fail",
                ![j].musicxml_path = path,
                ![j].error = error]

\* The return codes of an external process: zero and one that is not zero.
ReturnCodes == {0, 1}

\* omr.py:148-154: subprocess.run(xvfb-run Audiveris ..., timeout=300).
\* The engine exits (with any return code) having written <stem><ext> into
\* the output directory or nothing; or the timeout expires; or the
\* executable is missing.  It writes an output only if its input image,
\* the scratch image or the upload, is there.
RunAudiveris(j) ==
    /\ run[j].pc = "L148"
    /\ calls' = [calls EXCEPT ![j] = Append(@, [op |-> "audiveris", args |-> <<>>])]
    /\ \/ /\ run' = [OmrReturn(j, FALSE, None, OmrTimeoutMsg) EXCEPT ![j].engine = "timeout"]
          /\ UNCHANGED outdir
       \/ /\ run' = [OmrReturn(j, FALSE, None, AudiverisNotFoundMsg) EXCEPT ![j].engine = "notfound"]
          /\ UNCHANGED outdir
       \/ \E ext \in {".mxl", ".musicxml", ".xml"}, rc \in ReturnCodes :
            /\ run[j].preprocess = "ok" \/ j \in uploads
            /\ run' = [run EXCEPT ![j].pc = "L163", ![j].engine = "exit",
                                  ![j].returncode = Some(rc),
                                  ![j].produced = TRUE]
            /\ outdir' = WriteFile(outdir,
                            [job |-> j, pre |-> InputStem(j).pre, ext |-> ext],
                            [by |-> j, form |-> IF ext = ".mxl" THEN "mxl" ELSE "xml"])
       \/ \E rc \in ReturnCodes :
            /\ run' = [run EXCEPT ![j].pc = "L163", ![j].engine = "exit",
                                  ![j].returncode = Some(rc)]
            /\ UNCHANGED outdir
    /\ UNCHANGED <<job, queue, pdfdir, writes, clock, redelivered, uploads, aux>>

\* omr.py:225-233: the scratch image is removed if one was made and exists.
CleanUp(dir, j) ==
    IF run[j].preprocess = "ok" /\ Name(j, TRUE, ImageExt) \in DOMAIN dir
    THEN Remove(dir, Name(j, TRUE, ImageExt))
    ELSE dir

\* omr.py:194: `if not output_file`.  result.returncode is only reported in
\* the message.
NoOutputFile_or_nonzero_exit(found, returncode) == found = {} \/ returncode # Some(0)
NoOutputFile(found, returncode) == found = {}

Finalize_archive_under_plain_name(dir, j, found, extracted) ==
    IF found.ext = ".mxl" /\ extracted
    THEN [path |-> get_musicxml_path_with_ext(j, ".musicxml"),
          dir |-> Remove(WriteFile(dir, get_musicxml_path_with_ext(j, ".musicxml"),
                                   [by |-> dir[found].by, form |-> "xml"]),
                         found)]
    ELSE [path |-> get_musicxml_path_with_ext(j, ".musicxml"),
          dir |-> IF found # get_musicxml_path_with_ext(j, ".musicxml")
                  THEN Move(dir, found, get_musicxml_path_with_ext(j, ".musicxml"))
                  ELSE dir]

\* omr.py:202-221: the discovered file `found` becomes the job's result.
\* A .mxl archive is extracted to <job>.musicxml and removed; if the
\* extraction fails (`extracted` is FALSE) the archive is moved to <job>.mxl.
\* Any other file is moved to <job>.musicxml.  The result: the final path
\* and the directory.
Finalize(dir, j, found, extracted) ==
    IF found.ext = ".mxl"
    THEN IF extracted
         THEN [path |-> get_musicxml_path_with_ext(j, ".musicxml"),
               dir |-> Remove(WriteFile(dir, get_musicxml_path_with_ext(j, ".musicxml"),
                                        [by |-> dir[found].by, form |-> "xml"]),
                              found)]
         ELSE [path |-> get_musicxml_path_with_ext(j, ".mxl"),
               dir |-> Move(dir, found, get_musicxml_path_with_ext(j, ".mxl"))]
    ELSE [path |-> get_musicxml_path_with_ext(j, ".musicxml"),
          dir |-> IF found # get_musicxml_path_with_ext(j, ".musicxml")
                  THEN Move(dir, found, get_musicxml_path_with_ext(j, ".musicxml"))
                  ELSE dir]

\* omr.py:160-235: after the engine exited: discovery, then either the
\* failure of line 198 or the result file and the clean-up; or a file
\* operation raises and line 245 turns the exception into a failure.
FindOutput(j) ==
    /\ run[j].pc = "L163"
    /\ \/ LET found == DiscoverOutput(outdir, InputStem(j)) IN
            IF NoOutputFile(found, run[j].returncode)
            THEN /\ run' = OmrReturn(j, FALSE, None, NoOutputMsg)
                 /\ UNCHANGED outdir
            ELSE \E f \in found, extracted \in BOOLEAN :
                   LET fin == Finalize(outdir, j, f, extracted) IN
                     /\ f.ext # ".mxl" => extracted
                     /\ outdir' = CleanUp(fin.dir, j)
                     /\ run' = [OmrReturn(j, TRUE, Some(fin.path), <<>>) EXCEPT
                                  ![j].found = Some([name |-> f, content |-> outdir[f]]),
                                  ![j].extracted = IF f.ext # ".mxl" THEN "none"
                                                   ELSE IF extracted THEN "ok"
                                                   ELSE "fail"]
       \/ /\ run' = OmrReturn(j, FALSE, None, OmrErrorMsg)
          /\ UNCHANGED outdir
    /\ UNCHANGED <<job, queue, pdfdir, writes, calls, clock, redelivered, uploads, aux>>

\* ---- process_score_task, after process_image returned -------------------

\* update_job_status's default for `progress` (process_score.py:18).
DefaultProgress == 0

\* line 91: `return` after the Failed write of a failed recognition: the
\* run is over.
AfterRecognitionFailure_no_return == "L98"
AfterRecognitionFailure == "done"

\* lines 84-91: recognition failed.
FailRecognition(j) ==
    /\ run[j].pc = "L84"
    /\ run[j].omr # "ok"
    /\ StatusWrite(j, FAILED, DefaultProgress,
                   Some(ScoreRecognitionFailed \o run[j].error), None, None,
                   AfterRecognitionFailure)

\* lines 93-95: recognition succeeded.
Progress50(j) ==
    /\ run[j].pc = "L84"
    /\ run[j].omr = "ok"
    /\ StatusWrite(j, PROCESSING, 50, None, run[j].musicxml_path, None, "L98")

\* line 98: if transpose_semitones or (transpose_from_key and transpose_to_key)
TransposeRequested_always(j) == TRUE
TransposeRequested(j) ==
    \/ TruthyInt(run[j].transpose_semitones)
    \/ (TruthyStr(run[j].transpose_from_key) /\ TruthyStr(run[j].transpose_to_key))

\* line 100
Progress55(j) ==
    /\ run[j].pc = "L98"
    /\ TransposeRequested(j)
    /\ StatusWrite(j, PROCESSING, 55, None, None, None, "L104")

\* lines 104-111: transpose_by_semitones if transpose_semitones is truthy,
\* transpose_by_key otherwise.  Either returns success or, on any
\* exception of music21, failure (transpose.py:117-120,170-173).
TransposeCall(j) ==
    IF TruthyInt(run[j].transpose_semitones)
    THEN [op |-> "transpose_by_semitones", args |-> run[j].transpose_semitones]
    ELSE [op |-> "transpose_by_key",
          args |-> run[j].transpose_from_key \o run[j].transpose_to_key]

Transpose(j) ==
    /\ run[j].pc = "L104"
    /\ calls' = [calls EXCEPT ![j] = Append(@, TransposeCall(j))]
    /\ \E ok \in BOOLEAN :
        run' = [run EXCEPT ![j].pc = "L113",
                   ![j].transpose = IF ok THEN "ok" ELSE "fail",
                   ![j].error = IF ok THEN <<>> ELSE TransposeErrorMsg]
    /\ UNCHANGED <<job, queue, outdir, pdfdir, writes, clock, redelivered, uploads, aux>>

\* lines 113-120: transposition failed.
FailTransposition(j) ==
    /\ run[j].pc = "L113"
    /\ run[j].transpose # "ok"
    /\ StatusWrite(j, FAILED, DefaultProgress,
                   Some(TranspositionFailed \o run[j].error), None, None,
                   "done")

\* line 122: after a successful transposition, or when none was requested.
Progress70(j) ==
    /\ \/ run[j].pc = "L98" /\ ~TransposeRequested(j)
       \/ run[j].pc = "L113" /\ run[j].transpose = "ok"
    /\ StatusWrite(j, PROCESSING, 70, None, None, None, "L126")

\* line 126
Progress75(j) ==
    /\ run[j].pc = "L126"
    /\ StatusWrite(j, PROCESSING, 75, None, None, None, "L129")

\* ---- PDFService.convert_to_pdf (services/pdf.py:21-91) ------------------

\* What one subprocess.run of MuseScore may do: the timeout of 120 seconds
\* expires, the executable is missing, or the process exits with some
\* return code, having written <job>.pdf or not.
MuseScoreOutcomes ==
    {[kind |-> "timeout", returncode |-> None, output |-> FALSE],
     [kind |-> "notfound", returncode |-> None, output |-> FALSE]}
    \cup {[kind |-> "exit", returncode |-> Some(rc), output |-> o] :
             rc \in ReturnCodes, o \in BOOLEAN}

\* pdf.py:80: subprocess.run raised subprocess.TimeoutExpired.
TimeoutExpired_not_caught(outcome) == FALSE
TimeoutExpired(outcome) == outcome.kind = "timeout"

\* convert_to_pdf, given what the first invocation does and what the second
\* does if there is one: the result, the error, the invocations made and
\* whether <job>.pdf exists afterwards.
convert_to_pdf(j, first, second) ==
    IF TimeoutExpired(first)
    THEN [ok |-> FALSE, error |-> PdfTimeoutMsg, runs |-> <<first>>, exists |-> j \in pdfdir]
    ELSE IF first.kind = "notfound"
    THEN [ok |-> FALSE, error |-> MuseScoreNotFoundMsg, runs |-> <<first>>, exists |-> j \in pdfdir]
    ELSE IF first.output \/ j \in pdfdir              \* line 62: the file exists
    THEN [ok |-> TRUE, error |-> <<>>, runs |-> <<first>>, exists |-> TRUE]
    ELSE IF TimeoutExpired(second)                    \* lines 64-70: second try
    THEN [ok |-> FALSE, error |-> PdfTimeoutMsg, runs |-> <<first, second>>, exists |-> FALSE]
    ELSE IF second.kind = "notfound"
    THEN [ok |-> FALSE, error |-> MuseScoreNotFoundMsg, runs |-> <<first, second>>, exists |-> FALSE]
    ELSE IF second.output
    THEN [ok |-> TRUE, error |-> <<>>, runs |-> <<first, second>>, exists |-> TRUE]
    ELSE [ok |-> FALSE, error |-> NoPdfMsg, runs |-> <<first, second>>, exists |-> FALSE]

MuseScoreCall == [op |-> "musescore", args |-> <<>>]

\* lines 128-131
ConvertToPdf(j) ==
    /\ run[j].pc = "L129"
    /\ \E first \in MuseScoreOutcomes, second \in MuseScoreOutcomes :
        LET r == convert_to_pdf(j, first, second) IN
          /\ run' = [run EXCEPT ![j].pc = "L133",
                        ![j].musescore = r.runs,
                        ![j].pdf = IF r.ok THEN "ok" ELSE "fail",
                        ![j].pdf_path = IF r.ok THEN Some(get_pdf_output_path(j)) ELSE None,
                        ![j].error = r.error]
          /\ pdfdir' = IF r.exists THEN pdfdir \cup {j} ELSE pdfdir
          /\ calls' = [calls EXCEPT ![j] =
                          IF Len(r.runs) = 1 THEN Append(@, MuseScoreCall)
                          ELSE Append(Append(@, MuseScoreCall), MuseScoreCall)]
    /\ UNCHANGED <<job, queue, outdir, writes, clock, redelivered, uploads, aux>>

\* line 133: if not success
PdfFailed_ignored(j) == FALSE
PdfFailed(j) == run[j].pdf # "ok"

\* lines 133-140: rendering failed.
FailPdf(j) ==
    /\ run[j].pc = "L133"
    /\ PdfFailed(j)
    /\ StatusWrite(j, FAILED, DefaultProgress,
                   Some(PDFConversionFailed \o run[j].error), None, None,
                   "done")

\* line 144: update_job_status(job_id, COMPLETED, progress=100, pdf_path=pdf_path)
Complete(j) ==
    /\ run[j].pc = "L133"
    /\ ~PdfFailed(j)
    /\ StatusWrite(j, COMPLETED, 100, None, None, run[j].pdf_path, "done")

\* lines 153-158: the handler of `except Exception`.  Its own
\* update_job_status either commits, or raises, and then the exception
\* leaves the task.
Handler(j) ==
    /\ run[j].pc = "L153"
    /\ \/ /\ job' = IF j \in DOMAIN job
                    THEN [job EXCEPT ![j] = update_job_status(job[j], FAILED,
                             DefaultProgress, Some(ProcessingError \o run[j].error),
                             None, None, clock[j] + 1)]
                    ELSE job
          /\ clock' = [clock EXCEPT ![j] = @ + 1]
          /\ writes' = [writes EXCEPT ![j] =
                           Append(@, [status |-> FAILED, progress |-> DefaultProgress])]
          /\ run' = [run EXCEPT ![j].pc = "done"]
       \/ /\ run' = [run EXCEPT ![j].pc = "raised"]
          /\ UNCHANGED <<job, clock, writes>>
    /\ UNCHANGED <<queue, outdir, pdfdir, calls, redelivered, uploads, aux>>

\* The steps in which a run spends its time: the image preprocessing, the
\* two engines and the transposition.
BlockingPc == {"L80", "L148", "L104", "L129"}

\* tasks/__init__.py:20: task_time_limit=600, the hard limit: when a run
\* lasts that long the worker process executing it is killed.  Time is not
\* modelled: the limit may expire in any step the run spends its time in.
\* (The soft limit of line 21 raises SoftTimeLimitExceeded in the run
\* instead: a stage returns its failure, or a status write raises.)
HardTimeLimit(j) ==
    /\ run[j].pc \in BlockingPc
    /\ run' = [run EXCEPT ![j].pc = "killed"]
    /\ UNCHANGED <<job, queue, outdir, pdfdir, writes, calls, clock, redelivered, uploads, aux>>

\* ------------------------------------------------------------------------
\* Specifications
\* ------------------------------------------------------------------------

TaskStep(j) ==
    \/ Deliver(j)
    \/ Processing0(j) \/ Progress10(j)
    \/ Preprocess(j) \/ RunAudiveris(j) \/ FindOutput(j)
    \/ FailRecognition(j) \/ Progress50(j)
    \/ Progress55(j) \/ Transpose(j) \/ FailTransposition(j)
    \/ Progress70(j) \/ Progress75(j)
    \/ ConvertToPdf(j) \/ FailPdf(j) \/ Complete(j)
    \/ Handler(j)
    \/ HardTimeLimit(j)

Request ==
    \E j \in Jobs, file \in FileInputs, semitones \in SemitoneInputs,
       from_key \in FromKeyInputs, to_key \in ToKeyInputs :
        create_job(j, file, semitones, from_key, to_key)

Next == Request \/ \E j \in Jobs : TaskStep(j)

\* Every job is enqueued by create_job and delivered once.
Spec == Init /\ [][Next]_vars

\* The broker delivers a message a second time (at-least-once delivery: the
\* Redis transport redelivers a message that was not acknowledged within its
\* visibility timeout), here after the first run for the job is over.  The
\* task starts again with the same arguments.
MaxRedeliver == 1

Redeliver(j) ==
    /\ run[j].pc \in EndedPc
    /\ redelivered < MaxRedeliver
    /\ redelivered' = redelivered + 1
    /\ run' = [run EXCEPT ![j] =
                 [NoRun EXCEPT !.pc = "L73",
                    !.transpose_semitones = run[j].transpose_semitones,
                    !.transpose_from_key = run[j].transpose_from_key,
                    !.transpose_to_key = run[j].transpose_to_key]]
    /\ writes' = [writes EXCEPT ![j] = <<>>]
    /\ calls' = [calls EXCEPT ![j] = <<>>]
    /\ UNCHANGED <<job, queue, outdir, pdfdir, clock, uploads, aux>>

NextRedeliver == Next \/ \E j \in Jobs : Redeliver(j)

SpecRedeliver == Init /\ [][NextRedeliver]_vars

\* ------------------------------------------------------------------------
\* create_job commit by commit (routers/jobs.py:101-137), interleaved with
\* the worker.  In Spec the handler is one step; here each of its commits
\* is one, and the worker may run between the enqueue and the second commit.
\* ------------------------------------------------------------------------

\* lines 60-99: a request that fails validation is answered 400 there.
\* lines 101-121: the upload is saved, the row is added and committed, and
\* db.refresh(job) loads it into the handler's object `job` (req.obj).
\* req.form keeps what the request carried.
create_job_commit(j, file, semitones, from_key, to_key) ==
    /\ req.pc = "idle"
    /\ j \in NewIds /\ j \notin DOMAIN job
    /\ LET form == [file |-> file, transpose_semitones |-> semitones,
                    transpose_from_key |-> from_key, transpose_to_key |-> to_key]
       IN  IF RejectsFile(file) \/ RejectsTranspose(semitones, from_key, to_key)
           THEN /\ req' = [pc |-> "rejected", job_id |-> j, form |-> form]
                /\ UNCHANGED <<pipeline, pre, accounts>>
           ELSE /\ uploads' = uploads \cup {j}
                /\ job' = job @@ (j :> NewJob(semitones, from_key, to_key, None))
                /\ req' = [pc |-> "L124", job_id |-> j, form |-> form,
                           obj |-> NewJob(semitones, from_key, to_key, None),
                           row_at_commit |-> None]
                /\ UNCHANGED <<queue, run, outdir, pdfdir, writes, calls, clock,
                               redelivered, pre, accounts>>

\* line 124: process_score_task.delay(...) puts the message on the broker,
\* or raises and the request fails.  line 134: job.celery_task_id = task.id
\* modifies the handler's object.
create_job_delay ==
    /\ req.pc = "L124"
    /\ \/ /\ queue' = queue \cup {TaskMessage(req.job_id, req.obj.transpose_semitones,
                               req.obj.transpose_from_key, req.obj.transpose_to_key)}
          /\ req' = [req EXCEPT !.pc = "L135",
                                !.obj.celery_task_id = Some(req.job_id)]
       \/ /\ req' = [req EXCEPT !.pc = "failed"]
          /\ UNCHANGED queue
    /\ UNCHANGED <<job, run, outdir, pdfdir, writes, calls, clock, redelivered, uploads, pre, accounts>>

\* The UPDATE db.commit() flushes for the handler's object: it sets the
\* columns of the attributes modified since the object was loaded, here
\* celery_task_id only.
flush_whole_object(row, obj) == obj
flush(row, obj) == [row EXCEPT !.celery_task_id = obj.celery_task_id]

\* line 135: db.commit().  req.row_at_commit keeps the row the UPDATE found.
create_job_task_id ==
    /\ req.pc = "L135"
    /\ req.job_id \in DOMAIN job
    /\ job' = [job EXCEPT ![req.job_id] = flush(@, req.obj)]
    /\ req' = [req EXCEPT !.pc = "returned",
                          !.row_at_commit = Some(job[req.job_id])]
    /\ UNCHANGED <<queue, run, outdir, pdfdir, writes, calls, clock, redelivered, uploads, pre, accounts>>

RequestInSteps ==
    \/ \E j \in Jobs, file \in FileInputs, semitones \in SemitoneInputs,
          from_key \in FromKeyInputs, to_key \in ToKeyInputs :
           create_job_commit(j, file, semitones, from_key, to_key)
    \/ create_job_delay
    \/ create_job_task_id

NextCreate == RequestInSteps \/ \E j \in Jobs : TaskStep(j)

SpecCreate == Init /\ [][NextCreate]_vars

\* ------------------------------------------------------------------------
\* ImagePreprocessor (services/image_preprocessing.py), one method at a
\* time: `pre` holds the arguments of a call and, once the method has
\* returned, its result.  No job exists while a method is studied alone.
\* ------------------------------------------------------------------------

PipelineIdle ==
    /\ Fresh
    /\ queue = {}
    /\ run = [j \in Jobs |-> NoRun]
    /\ writes = [j \in Jobs |-> <<>>]
    /\ calls = [j \in Jobs |-> <<>>]
    /\ redelivered = 0
    /\ req = NoReq
    /\ AccountsIdle

Abs(x) == IF x < 0 THEN -x ELSE x

\* --- _deskew (lines 159-228) --------------------------------------------

\* Angles are integers in tenths of a degree.  np.degrees(theta) - 90 of
\* the detected lines (line 187): steep ones, the two ends of the accepted
\* interval, and small ones around half a degree.
AngleInputs == {-600, -450, -449, -6, -5, -4, 0, 4, 5, 6, 449, 450}

\* What cv2.HoughLines returns (line 176): None, or up to MaxLines lines.
LineInputs ==
    {None} \cup {Some(l) : l \in UNION {[1..n -> AngleInputs] : n \in 0..MaxLines}}

\* line 189: if -45 < angle < 45
Horizontal(angle) == -450 < angle /\ angle < 450

\* np.median (line 197) sorts the angles and takes the middle one, or the
\* mean of the two middle ones; median2 is twice the median.
RECURSIVE Insert(_, _)
Insert(x, s) ==
    IF s = <<>> THEN <<x>>
    ELSE IF x <= Head(s) THEN <<x>> \o s
    ELSE <<Head(s)>> \o Insert(x, Tail(s))

RECURSIVE Sort(_)
Sort(s) == IF s = <<>> THEN <<>> ELSE Insert(Head(s), Sort(Tail(s)))

median2(angles) ==
    LET s == Sort(angles)
        n == Len(s)
    IN  IF n % 2 = 1 THEN 2 * s[(n + 1) \div 2]
        ELSE s[n \div 2] + s[n \div 2 + 1]

\* line 200: if abs(median_angle) < 0.5
Insignificant_up_to_half_a_degree(m2) == Abs(m2) <= 2 * 5
Insignificant(m2) == Abs(m2) < 2 * 5

\* The image returned is the argument ("image") or the buffer warpAffine
\* made (line 219); angle2 is twice the angle returned.
_deskew(lines) ==
    IF lines = None \/ Len(lines[1]) = 0
    THEN [image |-> "image", angle2 |-> 0]                      \* line 180
    ELSE LET angles == SelectSeq(lines[1], Horizontal)
         IN  IF angles = <<>>
             THEN [image |-> "image", angle2 |-> 0]             \* line 194
             ELSE IF Insignificant(median2(angles))
                  THEN [image |-> "image", angle2 |-> 0]        \* line 201
                  ELSE [image |-> "rotated", angle2 |-> median2(angles)]

InitDeskew ==
    /\ PipelineIdle
    /\ \E lines \in LineInputs :
          pre = [pc |-> "_deskew", lines |-> lines, result |-> None]

Deskew ==
    /\ pre.pc = "_deskew"
    /\ pre' = [pre EXCEPT !.pc = "returned", !.result = Some(_deskew(pre.lines))]
    /\ UNCHANGED <<pipeline, req, accounts>>

SpecDeskew == InitDeskew /\ [][Deskew]_vars

\* --- _correct_perspective (lines 230-306) --------------------------------

\* What cv2.findContours returns (line 247): up to MaxContours contours,
\* each with its cv2.contourArea and the number of vertices approxPolyDP
\* gives it (line 261).
ContourAreas == {1, 2}
VertexCounts == {4, 5}
ContourInputs ==
    UNION {[1..n -> [area : ContourAreas, vertices : VertexCounts]] : n \in 0..MaxContours}

\* line 255: sorted(contours, key=cv2.contourArea, reverse=True), as
\* positions in the list found; equal areas keep their order.
RECURSIVE InsertByArea(_, _, _)
InsertByArea(i, s, contours) ==
    IF s = <<>> THEN <<i>>
    ELSE IF contours[i].area > contours[Head(s)].area THEN <<i>> \o s
    ELSE <<Head(s)>> \o InsertByArea(i, Tail(s), contours)

RECURSIVE ByAreaFrom(_, _)
ByAreaFrom(k, contours) ==
    IF k = 0 THEN <<>>
    ELSE InsertByArea(k, ByAreaFrom(k - 1, contours), contours)

\* line 255: [:5]
Largest == 5
LargestContours(contours) ==
    LET s == ByAreaFrom(Len(contours), contours)
    IN  SubSeq(s, 1, IF Len(s) < Largest THEN Len(s) ELSE Largest)

\* lines 258-266: the first contour whose approximation has 4 points.
RECURSIVE document_contour(_, _)
document_contour(s, contours) ==
    IF s = <<>> THEN None
    ELSE IF contours[Head(s)].vertices = 4 THEN Some(Head(s))
    ELSE document_contour(Tail(s), contours)

\* How getPerspectiveTransform and warpPerspective (lines 301, 304) end.
WarpOutcomes == {"warped", "cv2.error"}

\* The value returned: None, the image warped to the contour `used`, or the
\* exception of the warp, which no statement of the method catches.
_correct_perspective(contours, warp) ==
    IF contours = <<>> THEN [kind |-> "None"]                       \* line 252
    ELSE LET found == document_contour(LargestContours(contours), contours)
         IN  IF found = None THEN [kind |-> "None"]                 \* line 270
             ELSE IF warp = "cv2.error" THEN [kind |-> "raise", used |-> found[1]]
             ELSE [kind |-> "warped", used |-> found[1]]            \* line 306

\* --- preprocess (lines 62-139) -------------------------------------------

\* The statements of the try body, in order (lines 79-126).
steps_write_before_resolution ==
    <<"imread", "cvtColor", "_denoise", "_deskew", "_correct_perspective",
      "_enhance_contrast", "_binarize", "imwrite", "_ensure_resolution">>
steps ==
    <<"imread", "cvtColor", "_denoise", "_deskew", "_correct_perspective",
      "_enhance_contrast", "_binarize", "_ensure_resolution", "imwrite">>

\* The statement after `step`; line 134 after the last one.
After(step) ==
    LET i == CHOOSE k \in 1..Len(steps) : steps[k] = step
    IN  IF i = Len(steps) THEN "L134" ELSE steps[i + 1]

\* preprocess_for_omr (lines 422-445) sets the four flags to enable_all.
EnableInputs ==
    {[deskew |-> b, perspective_correction |-> b, denoising |-> b, binarization |-> b] :
        b \in BOOLEAN}

\* lines 93, 98, 105, 117: the steps behind a flag.
StepEnabled(step, enable) ==
    CASE step = "_denoise" -> enable.denoising
      [] step = "_deskew" -> enable.deskew
      [] step = "_correct_perspective" -> enable.perspective_correction
      [] step = "_binarize" -> enable.binarization
      [] OTHER -> TRUE

InitPreprocess ==
    /\ PipelineIdle
    /\ \E enable \in EnableInputs :
          pre = [pc |-> "imread", enable |-> enable, image |-> <<>>,
                 perspective |-> None, written |-> FALSE, raised_in |-> None,
                 result |-> None]

PreFrame == UNCHANGED <<pipeline, req, accounts>>

\* lines 79-81: cv2.imread returns the image or None.
Imread ==
    /\ pre.pc = "imread"
    /\ \/ pre' = [pre EXCEPT !.pc = After("imread"), !.image = <<"imread">>]
       \/ pre' = [pre EXCEPT !.pc = "returned",
                    !.result = Some([success |-> FALSE, error |-> "Failed to load image"])]
    /\ PreFrame

\* lines 87-100, 113-123: a step on the image; it is skipped when its flag
\* is off, and the cv2 call in it may raise.
ImageStep(step) ==
    /\ step \in {"cvtColor", "_denoise", "_deskew", "_enhance_contrast",
                 "_binarize", "_ensure_resolution"}
    /\ pre.pc = step
    /\ IF ~StepEnabled(step, pre.enable)
       THEN pre' = [pre EXCEPT !.pc = After(step)]
       ELSE \/ pre' = [pre EXCEPT !.pc = After(step), !.image = Append(@, step)]
            \/ pre' = [pre EXCEPT !.pc = "L136", !.raised_in = Some(step)]
    /\ PreFrame

\* lines 105-110: corrected = self._correct_perspective(gray)
CorrectPerspective ==
    /\ pre.pc = "_correct_perspective"
    /\ IF ~StepEnabled("_correct_perspective", pre.enable)
       THEN pre' = [pre EXCEPT !.pc = After("_correct_perspective")]
       ELSE \E contours \in ContourInputs, warp \in WarpOutcomes :
              LET corrected == _correct_perspective(contours, warp)
                  call == Some([contours |-> contours, warp |-> warp,
                                corrected |-> corrected])
              IN  CASE corrected.kind = "None" ->
                         pre' = [pre EXCEPT !.pc = After("_correct_perspective"),
                                            !.perspective = call]
                    [] corrected.kind = "warped" ->
                         pre' = [pre EXCEPT !.pc = After("_correct_perspective"),
                                            !.perspective = call,
                                            !.image = Append(@, "_correct_perspective")]
                    [] corrected.kind = "raise" ->
                         pre' = [pre EXCEPT !.pc = "L136", !.perspective = call,
                                            !.raised_in = Some("_correct_perspective")]
    /\ PreFrame

\* lines 126-128: cv2.imwrite returns True with the file written, returns
\* False with no file left, or raises before it opens the file.
Imwrite ==
    /\ pre.pc = "imwrite"
    /\ \/ pre' = [pre EXCEPT !.pc = After("imwrite"), !.written = TRUE]
       \/ pre' = [pre EXCEPT !.pc = "returned",
                    !.result = Some([success |-> FALSE,
                                     error |-> "Failed to write preprocessed image"])]
       \/ pre' = [pre EXCEPT !.pc = "L136", !.raised_in = Some("imwrite")]
    /\ PreFrame

\* line 134: return True, None
ReturnTrue ==
    /\ pre.pc = "L134"
    /\ pre' = [pre EXCEPT !.pc = "returned",
                 !.result = Some([success |-> TRUE, error |-> ""])]
    /\ PreFrame

\* lines 136-139: except Exception
ExceptException ==
    /\ pre.pc = "L136"
    /\ pre' = [pre EXCEPT !.pc = "returned",
                 !.result = Some([success |-> FALSE, error |-> "Image preprocessing error"])]
    /\ PreFrame

NextPreprocess ==
    \/ Imread
    \/ \E step \in {steps[k] : k \in 1..Len(steps)} : ImageStep(step)
    \/ CorrectPerspective
    \/ Imwrite
    \/ ReturnTrue
    \/ ExceptException

SpecPreprocess == InitPreprocess /\ [][NextPreprocess]_vars

\* --- _order_points (lines 308-329) ---------------------------------------

\* The 4 points of the approximated contour (line 273): distinct points
\* <<x, y>> with coordinates up to MaxCoordinate, in any order.
PointInputs ==
    {p \in [1..4 -> (0..MaxCoordinate) \X (0..MaxCoordinate)] :
        \A i, j \in 1..4 : i # j => p[i] # p[j]}

\* line 321: points.sum(axis=1), for one point
sum(point) == point[1] + point[2]

\* line 325: np.diff(points, axis=1), for one point: the second column
\* minus the first
diff_x_minus_y(point) == point[1] - point[2]
diff(point) == point[2] - point[1]

\* np.argmin and np.argmax return the first position of the extreme value.
argmin(a) ==
    CHOOSE i \in 1..Len(a) :
        /\ \A j \in 1..Len(a) : a[i] <= a[j]
        /\ \A j \in 1..(i - 1) : a[j] > a[i]

argmax(a) ==
    CHOOSE i \in 1..Len(a) :
        /\ \A j \in 1..Len(a) : a[i] >= a[j]
        /\ \A j \in 1..(i - 1) : a[j] < a[i]

\* rect[0..3] of the source are rect[1..4] here: top-left, top-right,
\* bottom-right, bottom-left.
_order_points(points) ==
    LET s == [i \in 1..Len(points) |-> sum(points[i])]      \* line 321
        d == [i \in 1..Len(points) |-> diff(points[i])]     \* line 325
    IN  << points[argmin(s)],       \* line 322
           points[argmin(d)],       \* line 326
           points[argmax(s)],       \* line 323
           points[argmax(d)] >>     \* line 327

InitOrderPoints ==
    /\ PipelineIdle
    /\ \E points \in PointInputs :
          pre = [pc |-> "_order_points", points |-> points, rect |-> None]

OrderPoints ==
    /\ pre.pc = "_order_points"
    /\ pre' = [pre EXCEPT !.pc = "returned", !.rect = Some(_order_points(pre.points))]
    /\ UNCHANGED <<pipeline, req, accounts>>

SpecOrderPoints == InitOrderPoints /\ [][OrderPoints]_vars

\* --- _ensure_resolution (lines 381-419) -----------------------------------

\* self.target_dpi (300 unless the caller passes another), and the shape
\* of the image: widths around 11 inches at the target, and small ones.
TargetInputs == {30, 300}
WidthInputs == {1, 9, 18, 329, 330, 331, 3297, 3298, 3299, 3300, 3301, 4000}
HeightInputs == {1, 100, 2549, 3299, 5000}

\* line 398: assumed_width_inches = 11.0
assumed_width_inches == 11

\* lines 399-401: current_dpi = width / 11.0; current_dpi < self.target_dpi.
\* The quotient of doubles is below target_dpi exactly when width is below
\* 11 * target_dpi, for all the inputs above.
BelowTarget(width, target_dpi) == width < assumed_width_inches * target_dpi

\* lines 403-405 in IEEE-754 doubles: scale_factor = target_dpi /
\* (width / 11.0), and x * scale_factor for x the width or the height.  For
\* these <<target_dpi, width, x>> the product comes out one unit in the
\* last place below the integer x * 11 * target_dpi / width (3299 *
\* (300 / (3299 / 11.0)) is 3299.9999999999995); for every other input
\* above, int() of the product is the floor of the exact quotient.
RoundedBelow ==
    { <<30, 329, 329>>, <<300, 9, 9>>, <<300, 18, 18>>, <<300, 329, 329>>,
      <<300, 3297, 3297>>, <<300, 3299, 3299>> }

\* int(x * scale_factor)
scaled(x, width, target_dpi) ==
    LET exact == (x * assumed_width_inches * target_dpi) \div width
    IN  IF <<target_dpi, width, x>> \in RoundedBelow THEN exact - 1 ELSE exact

\* The image returned: the argument, or what cv2.resize made (line 413).
_ensure_resolution(width, height, target_dpi) ==
    IF BelowTarget(width, target_dpi)
    THEN [image |-> "upscaled",
          width |-> scaled(width, width, target_dpi),
          height |-> scaled(height, width, target_dpi)]
    ELSE [image |-> "image", width |-> width, height |-> height]

InitResolution ==
    /\ PipelineIdle
    /\ \E target_dpi \in TargetInputs, width \in WidthInputs, height \in HeightInputs :
          pre = [pc |-> "_ensure_resolution", target_dpi |-> target_dpi,
                 width |-> width, height |-> height, result |-> None]

EnsureResolution ==
    /\ pre.pc = "_ensure_resolution"
    /\ pre' = [pre EXCEPT !.pc = "returned",
                 !.result = Some(_ensure_resolution(pre.width, pre.height, pre.target_dpi))]
    /\ UNCHANGED <<pipeline, req, accounts>>

SpecResolution == InitResolution /\ [][EnsureResolution]_vars

\* ------------------------------------------------------------------------
\* delete_job (routers/jobs.py:271-297), interleaved with the worker.
\* ------------------------------------------------------------------------

\* delete_file (utils/storage.py:57-66) on a path of musicxml/<user>/.
delete_file(dir, path) == IF path \in DOMAIN dir THEN Remove(dir, path) ELSE dir

\* lines 278-283: the row is looked up, 404 when there is none.  lines
\* 286-291: the upload and the files the row names are deleted.  lines
\* 294-295: the row is deleted.  req keeps the request and the row it found.
delete_job(j) ==
    /\ req.pc = "idle"
    /\ j \in DOMAIN job
    /\ uploads' = uploads \ {j}
    /\ outdir' = IF TruthyPath(job[j].musicxml_path)
                 THEN delete_file(outdir, job[j].musicxml_path[1])
                 ELSE outdir
    /\ pdfdir' = IF TruthyPath(job[j].pdf_path)
                 THEN pdfdir \ {job[j].pdf_path[1].pdf}
                 ELSE pdfdir
    /\ job' = [k \in DOMAIN job \ {j} |-> job[k]]
    /\ req' = [pc |-> "deleted", job_id |-> j, row |-> job[j],
               during |-> run[j].pc]
    /\ UNCHANGED <<queue, run, writes, calls, clock, redelivered, pre, accounts>>

\* A job id is a uuid4: no request creates a job under the id of a deleted
\* one.
NextDelete ==
    \/ req.pc = "idle" /\ Request
    \/ \E j \in Jobs : delete_job(j)
    \/ \E j \in Jobs : TaskStep(j)

SpecDelete == Init /\ [][NextDelete]_vars

\* ------------------------------------------------------------------------
\* Output discovery on its own (omr.py:163-192): `pre` holds the output
\* directory and the stem of the input, and then what was selected.
\* ------------------------------------------------------------------------

\* The files an output directory may hold when the engine has exited for
\* job "j1": outputs under the stem of its upload and of its scratch image,
\* that scratch image, and files of another job.
InitDiscover ==
    LET names == {Name("j1", FALSE, ".mxl"), Name("j1", FALSE, ".musicxml"),
                  Name("j1", FALSE, ".xml"), Name("j1", TRUE, ".mxl"),
                  Name("j1", TRUE, ImageExt), Name("j0", FALSE, ".musicxml"),
                  Name("j0", FALSE, ".xml")}
        content(n) == [by |-> n.job, form |-> IF n.ext = ".mxl" THEN "mxl" ELSE "xml"]
    IN  /\ PipelineIdle
        /\ \E S \in SUBSET names, scratch \in BOOLEAN :
              pre = [pc |-> "L163", dir |-> [n \in S |-> content(n)],
                     input_stem |-> [job |-> "j1", pre |-> scratch],
                     output_file |-> None, scanned |-> FALSE]

\* lines 170-192: the loop over possible_outputs, and the loop over
\* os.listdir when it found nothing; os.listdir lists in any order.
Discover ==
    /\ pre.pc = "L163"
    /\ LET output_file == ProbeByName(pre.dir, pre.input_stem)
       IN  IF output_file # None
           THEN pre' = [pre EXCEPT !.pc = "L194", !.output_file = output_file]
           ELSE \/ \E f \in ScanMatches(pre.dir) :
                     pre' = [pre EXCEPT !.pc = "L194", !.output_file = Some(f),
                                        !.scanned = TRUE]
                \/ /\ ScanMatches(pre.dir) = {}
                   /\ pre' = [pre EXCEPT !.pc = "L194", !.scanned = TRUE]
    /\ UNCHANGED <<pipeline, req, accounts>>

SpecDiscover == InitDiscover /\ [][Discover]_vars

\* ------------------------------------------------------------------------
\* _extract_mxl_to_musicxml on its own (omr.py:34-83): `pre` holds the
\* member names of the archive and how its file operations end.
\* ------------------------------------------------------------------------

\* str.lower() on a part of a name
lower(part) ==
    CASE part = "Container" -> "container"
      [] part = "META-INF" -> "meta-inf"
      [] OTHER -> part

\* line 62: "container" in f.lower()
container_never(f) == FALSE
container(f) == \E i \in 1..Len(f) : lower(f[i]) = "container"

\* The value returned, and the member written to output_path.  `fault` is
\* how the file operations end: all succeed ("none"), zipfile.ZipFile
\* raises BadZipFile (line 46), or reading the member or writing the output
\* raises (lines 72-74).
_extract_mxl_to_musicxml(namelist, fault) ==
    IF fault = "BadZipFile" THEN [ok |-> FALSE, member |-> None]          \* line 80
    ELSE LET \* lines 49-53: f.endswith(".xml") and not f.startswith("META-INF")
             xml_files == SelectSeq(namelist,
                              LAMBDA f : f[Len(f)] = ".xml" /\ f[1] # "META-INF")
             \* lines 60-67: the first of xml_files that does not look like
             \* the container, or xml_files[0]
             plain == SelectSeq(xml_files, LAMBDA f : ~container(f))
             main_xml == IF plain # <<>> THEN plain[1] ELSE xml_files[1]
         IN  IF xml_files = <<>> THEN [ok |-> FALSE, member |-> None]     \* line 57
             ELSE IF fault = "OSError" THEN [ok |-> FALSE, member |-> None]  \* line 83
             ELSE [ok |-> TRUE, member |-> Some(main_xml)]                \* line 76

\* zf.namelist(): up to MaxMembers distinct members, in archive order; a
\* member name is the sequence of its parts.
InitExtract ==
    LET names == { <<"META-INF", "/", "container", ".xml">>,
                   <<"mimetype">>,
                   <<"score", ".xml">>,
                   <<"part", ".xml">>,
                   <<"Container", ".xml">>,
                   <<"score", ".musicxml">> }
        namelists == {l \in UNION {[1..n -> names] : n \in 0..MaxMembers} :
                         \A i, k \in 1..Len(l) : i # k => l[i] # l[k]}
    IN  /\ PipelineIdle
        /\ \E namelist \in namelists, fault \in {"none", "BadZipFile", "OSError"} :
              pre = [pc |-> "_extract_mxl_to_musicxml", namelist |-> namelist,
                     fault |-> fault, result |-> None]

Extract ==
    /\ pre.pc = "_extract_mxl_to_musicxml"
    /\ pre' = [pre EXCEPT !.pc = "returned",
                 !.result = Some(_extract_mxl_to_musicxml(pre.namelist, pre.fault))]
    /\ UNCHANGED <<pipeline, req, accounts>>

SpecExtract == InitExtract /\ [][Extract]_vars

\* ------------------------------------------------------------------------
\* Password reset (routers/auth.py:372-515, models/password_reset.py).
\* A user is named by its id, which stands for its email too.
\* ------------------------------------------------------------------------

\* pwd_context.hash (auth.py:502-503); the salt is left out.
hash(password) == <<"bcrypt", password>>

\* auth.py:372-433.  The token row is committed for a registered email;
\* the answer is the same for every email.  The token is a value of
\* secrets.token_urlsafe(32) that no request has seen: generate_token never
\* repeats one.
request_password_reset(email) ==
    /\ req.pc \in {"idle", "responded"}
    /\ IF email \in DOMAIN users
       THEN \E t \in {"t1", "t2"} :
               /\ t \notin DOMAIN tokens
               /\ \A c \in DOMAIN confirm :
                     "token" \in DOMAIN confirm[c] => confirm[c].token # t
               /\ tokens' = tokens @@ (t :> [user_id |-> email, used |-> "0",
                                             expired |-> FALSE])     \* 404-409
               /\ req' = [pc |-> "responded", handler |-> "request_password_reset",
                          email |-> email, token |-> Some(t)]
       ELSE /\ req' = [pc |-> "responded", handler |-> "request_password_reset",
                       email |-> email, token |-> None]
            /\ UNCHANGED tokens
    /\ UNCHANGED <<pipeline, pre, users, confirm>>

\* Time passes beyond expires_at: is_expired() (password_reset.py:32-34)
\* answers True from now on.
TokenExpires(t) ==
    /\ t \in DOMAIN tokens
    /\ ~tokens[t].expired
    /\ tokens' = [tokens EXCEPT ![t].expired = TRUE]
    /\ UNCHANGED <<pipeline, req, pre, users, confirm>>

Rejected400(token, detail) ==
    [pc |-> "raised", status_code |-> 400, token |-> token, detail |-> detail]

\* auth.py:451-499: the token row is loaded into the session, then checked
\* as loaded; an expired token is deleted.
confirm_password_reset_query(c, token, new_password) ==
    /\ confirm[c].pc = "idle"
    /\ IF token \notin DOMAIN tokens
       THEN /\ confirm' = [confirm EXCEPT ![c] =
                             Rejected400(token, "Invalid or expired reset token")]
            /\ UNCHANGED tokens
       ELSE IF tokens[token].expired                                  \* 466-474
       THEN /\ tokens' = [t \in DOMAIN tokens \ {token} |-> tokens[t]]
            /\ confirm' = [confirm EXCEPT ![c] =
                             Rejected400(token, "Reset token has expired")]
       ELSE IF tokens[token].used = "1"                               \* 477-483
       THEN /\ confirm' = [confirm EXCEPT ![c] =
                             Rejected400(token, "Reset token has already been used")]
            /\ UNCHANGED tokens
       ELSE IF tokens[token].user_id \notin DOMAIN users              \* 492-499
       THEN /\ confirm' = [confirm EXCEPT ![c] = Rejected400(token, "User not found")]
            /\ UNCHANGED tokens
       ELSE /\ confirm' = [confirm EXCEPT ![c] =
                             [pc |-> "L503", token |-> token,
                              new_password |-> new_password,
                              reset_token |-> tokens[token]]]
            /\ UNCHANGED tokens
    /\ UNCHANGED <<pipeline, req, pre, users>>

\* auth.py:503-515: the password and the token's used flag are written in
\* one commit; the UPDATEs name the rows by primary key only.  If the token
\* row was deleted since it was loaded, the flush raises StaleDataError and
\* nothing is written; so it is when the database refuses the commit.
confirm_password_reset_commit(c) ==
    /\ confirm[c].pc = "L503"
    /\ LET token == confirm[c].token
           user_id == confirm[c].reset_token.user_id
       IN  \/ /\ token \in DOMAIN tokens
              /\ users' = [users EXCEPT
                             ![user_id].hashed_password = hash(confirm[c].new_password)]
              /\ tokens' = [tokens EXCEPT ![token].used = "1"]        \* mark_as_used
              /\ confirm' = [confirm EXCEPT ![c].pc = "returned"]
           \/ /\ confirm' = [confirm EXCEPT ![c] =
                               [pc |-> "raised", status_code |-> 500,
                                token |-> token, detail |-> "Internal Server Error"]]
              /\ UNCHANGED <<users, tokens>>
    /\ UNCHANGED <<pipeline, req, pre>>

\* The accounts before any request for a password reset or to the admin
\* router; no job exists.
InitAccounts == PipelineIdle /\ pre = NoPre

\* The requests name a registered email or another, a token that may have
\* been issued, and one of two passwords.
NextReset ==
    \/ \E email \in {"u1", "u2", "nobody"} : request_password_reset(email)
    \/ \E t \in {"t1", "t2"} : TokenExpires(t)
    \/ \E c \in DOMAIN confirm, token \in {"t1", "t2"}, new_password \in {"p1", "p2"} :
          confirm_password_reset_query(c, token, new_password)
    \/ \E c \in DOMAIN confirm : confirm_password_reset_commit(c)

SpecReset == InitAccounts /\ [][NextReset]_vars

\* ------------------------------------------------------------------------
\* User administration (routers/admin.py).  Each handler runs as one step:
\* it loads the user, changes it and commits.  `req` keeps the last request
\* and its answer.
\* ------------------------------------------------------------------------

\* admin.py:20-27 over auth.py:29-90: the status the dependencies answer
\* with, 200 when the caller may proceed.  No handler of the model clears
\* is_active, so the check of line 70 passes.
get_current_superuser(caller) ==
    IF caller \notin DOMAIN users THEN 401           \* auth.py:65-68
    ELSE IF ~users[caller].is_approved THEN 403      \* auth.py:77-86
    ELSE IF ~users[caller].is_superuser THEN 403     \* admin.py:22-26
    ELSE 200

Responded(handler, caller, user_id, status_code) ==
    [pc |-> "responded", handler |-> handler, caller |-> caller,
     user_id |-> user_id, status_code |-> status_code]

\* admin.py:91-119
approve_user(caller, user_id) ==
    /\ req.pc \in {"idle", "responded"}
    /\ LET answer(status_code) == Responded("approve_user", caller, user_id, status_code)
       IN  IF get_current_superuser(caller) # 200
           THEN req' = answer(get_current_superuser(caller)) /\ UNCHANGED users
           ELSE IF user_id \notin DOMAIN users
           THEN req' = answer(404) /\ UNCHANGED users
           ELSE IF users[user_id].is_approved
           THEN req' = answer(200) /\ UNCHANGED users                \* line 110
           ELSE /\ users' = [users EXCEPT ![user_id].is_approved = TRUE]
                /\ req' = answer(200)
    /\ UNCHANGED <<pipeline, pre, tokens, confirm>>

\* admin.py:153-176
update_user_approval(caller, user_id, approved) ==
    /\ req.pc \in {"idle", "responded"}
    /\ LET answer(status_code) ==
               Responded("update_user_approval", caller, user_id, status_code)
                   @@ [approved |-> approved]
       IN  IF get_current_superuser(caller) # 200
           THEN req' = answer(get_current_superuser(caller)) /\ UNCHANGED users
           ELSE IF user_id \notin DOMAIN users
           THEN req' = answer(404) /\ UNCHANGED users
           ELSE /\ users' = [users EXCEPT ![user_id].is_approved = approved]  \* line 172
                /\ req' = answer(200)
    /\ UNCHANGED <<pipeline, pre, tokens, confirm>>

\* admin.py:179-208
make_superuser(caller, user_id) ==
    /\ req.pc \in {"idle", "responded"}
    /\ LET answer(status_code) == Responded("make_superuser", caller, user_id, status_code)
       IN  IF get_current_superuser(caller) # 200
           THEN req' = answer(get_current_superuser(caller)) /\ UNCHANGED users
           ELSE IF user_id \notin DOMAIN users
           THEN req' = answer(404) /\ UNCHANGED users
           ELSE IF users[user_id].is_superuser
           THEN req' = answer(200) /\ UNCHANGED users                \* line 198
           ELSE /\ users' = [users EXCEPT ![user_id].is_superuser = TRUE,   \* line 200
                                          ![user_id].is_approved = TRUE]    \* line 201
                /\ req' = answer(200)
    /\ UNCHANGED <<pipeline, pre, tokens, confirm>>

\* admin.py:211-245
revoke_superuser(caller, user_id) ==
    /\ req.pc \in {"idle", "responded"}
    /\ LET answer(status_code) == Responded("revoke_superuser", caller, user_id, status_code)
       IN  IF get_current_superuser(caller) # 200
           THEN req' = answer(get_current_superuser(caller)) /\ UNCHANGED users
           ELSE IF user_id \notin DOMAIN users
           THEN req' = answer(404) /\ UNCHANGED users
           ELSE IF user_id = caller
           THEN req' = answer(400) /\ UNCHANGED users                \* 229-233
           ELSE IF ~users[user_id].is_superuser
           THEN req' = answer(200) /\ UNCHANGED users                \* line 236
           ELSE /\ users' = [users EXCEPT ![user_id].is_superuser = FALSE]
                /\ req' = answer(200)
    /\ UNCHANGED <<pipeline, pre, tokens, confirm>>

\* The {user_id} of a request's path names a user, or no user.
NextAdmin ==
    \E caller \in DOMAIN users, user_id \in DOMAIN users \cup {"nobody"} :
        \/ approve_user(caller, user_id)
        \/ \E approved \in BOOLEAN : update_user_approval(caller, user_id, approved)
        \/ make_superuser(caller, user_id)
        \/ revoke_superuser(caller, user_id)

SpecAdmin == InitAccounts /\ [][NextAdmin]_vars

\* ------------------------------------------------------------------------
\* Properties
\* ------------------------------------------------------------------------

Terminal == {COMPLETED, FAILED}

\* The jobs a run of this session has been started for.
Started == {j \in DOMAIN job : run[j].pc # "idle"}

\* The invocations of the run of j whose op is in `ops`.
CallsOf(j, ops) == {i \in 1..Len(calls[j]) : calls[j][i].op \in ops}

\* C1: every job whose status became Processing ends Completed or Failed:
\* no run of process_score_task ends (returns, raises, or is killed at the
\* task time limit) leaving the job in Processing.
C1_NoRunEndsInProcessing ==
    \A j \in Started : run[j].pc \in EndedPc => job[j].status # PROCESSING

\* C2: once the status of a job is terminal, no later update_job_status
\* call changes any field of its row, also not the calls of a second or
\* redelivered run for the same job id.
C2_TerminalRowNeverChanges ==
    [][\A j \in DOMAIN job : job[j].status \in Terminal => job'[j] = job[j]]_vars

\* C3: the first stage to fail ends the run: after recognition failed
\* neither the transposition nor MuseScore is invoked, after transposition
\* failed MuseScore is not invoked, and a Failed write is the last write of
\* the run.
C3_FirstFailureEndsRun ==
    \A j \in Started :
        /\ run[j].omr = "fail" =>
              CallsOf(j, {"transpose_by_semitones", "transpose_by_key", "musescore"}) = {}
        /\ run[j].transpose = "fail" => CallsOf(j, {"musescore"}) = {}
        /\ \A i \in 1..Len(writes[j]) :
              writes[j][i].status = FAILED => i = Len(writes[j])
        /\ run[j].pc \in ActivePc \ {"L153"} =>
              \A i \in 1..Len(writes[j]) : writes[j][i].status # FAILED

\* C3's case: recognition failed, its Failed write was committed, and the
\* run is over with Audiveris as its only invocation.
C3_Witness ==
    \E j \in Started :
        /\ run[j].omr = "fail" /\ run[j].pc = "done" /\ ~run[j].raised
        /\ job[j].status = FAILED
        /\ Len(calls[j]) = 1

\* C4: within one run the progress values written never decrease, the
\* Failed write included.
C4_ProgressNeverDecreases ==
    \A j \in Started :
        \A i \in 1..Len(writes[j]) - 1 :
            writes[j][i].progress <= writes[j][i + 1].progress

\* The prefixes C5 names, and the prefixes of the messages as they are.
C5_recognition_failed == <<"r", "e", "c", "o", "g", "n", "i", "t", "i", "o", "n", " ", "f", "a", "i", "l", "e", "d", ":">>
C5_transposition_failed == <<"t", "r", "a", "n", "s", "p", "o", "s", "i", "t", "i", "o", "n", " ", "f", "a", "i", "l", "e", "d", ":">>
C5_rendering_failed == <<"r", "e", "n", "d", "e", "r", "i", "n", "g", " ", "f", "a", "i", "l", "e", "d", ":">>
C5_Score_recognition_failed == <<"S", "c", "o", "r", "e", " ", "r", "e", "c", "o", "g", "n", "i", "t", "i", "o", "n", " ", "f", "a", "i", "l", "e", "d", ":", " ">>
C5_Transposition_failed == <<"T", "r", "a", "n", "s", "p", "o", "s", "i", "t", "i", "o", "n", " ", "f", "a", "i", "l", "e", "d", ":", " ">>
C5_PDF_conversion_failed == <<"P", "D", "F", " ", "c", "o", "n", "v", "e", "r", "s", "i", "o", "n", " ", "f", "a", "i", "l", "e", "d", ":", " ">>
C5_Processing_error == <<"P", "r", "o", "c", "e", "s", "s", "i", "n", "g", " ", "e", "r", "r", "o", "r", ":", " ">>

\* The Failed jobs whose Failed write is the one of the failed stage (no
\* exception reached the handler), and those the handler marked Failed.
FailedByStage == {j \in Started : job[j].status = FAILED /\ ~run[j].raised}
FailedByHandler == {j \in Started : job[j].status = FAILED /\ run[j].raised}

\* C5 as stated: the message of a Failed job begins with "recognition
\* failed:", "transposition failed:" or "rendering failed:" according to
\* the stage that failed, and with none of them after an uncaught exception.
C5_PrefixesAsStated ==
    /\ \A j \in FailedByStage :
        /\ job[j].error_message # None
        /\ run[j].omr = "fail" =>
              StartsWith(job[j].error_message[1], C5_recognition_failed)
        /\ run[j].transpose = "fail" =>
              StartsWith(job[j].error_message[1], C5_transposition_failed)
        /\ run[j].pdf = "fail" =>
              StartsWith(job[j].error_message[1], C5_rendering_failed)
    /\ \A j \in FailedByHandler :
        /\ job[j].error_message # None
        /\ ~StartsWith(job[j].error_message[1], C5_recognition_failed)
        /\ ~StartsWith(job[j].error_message[1], C5_transposition_failed)
        /\ ~StartsWith(job[j].error_message[1], C5_rendering_failed)

\* C5, amended: the message a failed stage stores begins with "Score
\* recognition failed: ", "Transposition failed: " or "PDF conversion
\* failed: " according to the stage; the message the exception handler
\* stores begins with "Processing error: " and with none of the three.
C5_PrefixesByStage ==
    /\ \A j \in FailedByStage :
        /\ job[j].error_message # None
        /\ run[j].omr = "fail" =>
              StartsWith(job[j].error_message[1], C5_Score_recognition_failed)
        /\ run[j].transpose = "fail" =>
              StartsWith(job[j].error_message[1], C5_Transposition_failed)
        /\ run[j].pdf = "fail" =>
              StartsWith(job[j].error_message[1], C5_PDF_conversion_failed)
        /\ run[j].omr = "fail" \/ run[j].transpose = "fail" \/ run[j].pdf = "fail"
    /\ \A j \in FailedByHandler :
        /\ job[j].error_message # None
        /\ StartsWith(job[j].error_message[1], C5_Processing_error)
        /\ ~StartsWith(job[j].error_message[1], C5_Score_recognition_failed)
        /\ ~StartsWith(job[j].error_message[1], C5_Transposition_failed)
        /\ ~StartsWith(job[j].error_message[1], C5_PDF_conversion_failed)

\* C5's case: a job Failed by its recognition stage and carrying the
\* message of that stage.
C5_Witness ==
    \E j \in FailedByStage :
        /\ run[j].omr = "fail"
        /\ job[j].error_message = Some(C5_Score_recognition_failed \o NoOutputMsg)

\* C6: when Audiveris exits without having written an output file, the
\* recognition stage reports failure and the job ends Failed, whatever the
\* output directory held before.
C6_NoOutputIsFailure ==
    \A j \in Started :
        run[j].engine = "exit" /\ ~run[j].produced =>
            /\ run[j].omr # "ok"
            /\ run[j].pc = "done" => job[j].status = FAILED

C8_CompletedHasArtifacts ==
    \A j \in DOMAIN job :
        /\ job[j].status = COMPLETED =>
              /\ job[j].progress = 100
              /\ job[j].musicxml_path # None
              /\ job[j].pdf_path # None
        /\ job[j].pdf_path # None => job[j].status = COMPLETED

\* C8's case: the run of a job has committed the Completed write.
C8_Witness ==
    \E j \in Started :
        /\ job[j].status = COMPLETED
        /\ run[j].pc = "done"
        /\ job[j].pdf_path = Some(get_pdf_output_path(j))

\* The run of j is past the transposition step of lines 97-122.
PastTransposition(j) == run[j].pc \in {"L113", "L126", "L129", "L133"}

\* The transposition invocations of the run of j, in order.
TranspositionCalls(j) ==
    LET IsTransposition(c) == c.op \in {"transpose_by_semitones", "transpose_by_key"}
    IN  SelectSeq(calls[j], IsTransposition)

\* C9: past the transposition step, a run whose job has a semitone offset
\* (0 included) has invoked transpose_by_semitones once with it and never
\* transpose_by_key; with no offset and both keys it has invoked
\* transpose_by_key once with the pair; with neither it has invoked nothing.
C9_TranspositionSelection ==
    \A j \in Started :
        PastTransposition(j) =>
            TranspositionCalls(j) =
                IF job[j].transpose_semitones # None
                THEN <<[op |-> "transpose_by_semitones",
                        args |-> job[j].transpose_semitones]>>
                ELSE IF job[j].transpose_from_key # None /\ job[j].transpose_to_key # None
                THEN <<[op |-> "transpose_by_key",
                        args |-> job[j].transpose_from_key \o job[j].transpose_to_key]>>
                ELSE <<>>

\* C10: no job row has both a semitone offset and a key pair.
C10_OneTransposeRepresentation ==
    \A j \in DOMAIN job :
        ~ /\ job[j].transpose_semitones # None
          /\ job[j].transpose_from_key # None
          /\ job[j].transpose_to_key # None

\* C11: within one run of process_score_task each external engine
\* (Audiveris, MuseScore) is invoked at most once, also when its first
\* invocation exits without producing an output file.
C11_EnginesInvokedAtMostOnce ==
    \A j \in Started :
        /\ Cardinality(CallsOf(j, {"audiveris"})) <= 1
        /\ Cardinality(CallsOf(j, {"musescore"})) <= 1

\* C12: after process_image returned, with success or with any failure, the
\* preprocessed scratch image <job>_preprocessed<suffix> of the run does not
\* exist.
C12_ScratchFileRemoved ==
    \A j \in Started :
        run[j].omr # "none" =>
            [job |-> j, pre |-> TRUE, ext |-> ".png"] \notin DOMAIN outdir

\* C13: whenever recognition succeeded, the path it returned, which is
\* handed to transposition and rendering and stored as musicxml_path, names
\* the plain .musicxml form and never the .mxl archive, whatever the
\* extraction of an archive did.
C13_PlainFormHandedOn ==
    \A j \in Started :
        run[j].omr = "ok" =>
            /\ run[j].musicxml_path # None
            /\ run[j].musicxml_path[1].ext = ".musicxml"
            /\ run[j].musicxml_path[1] \in DOMAIN outdir =>
                  outdir[run[j].musicxml_path[1]].form = "xml"
            /\ job[j].musicxml_path # None =>
                  job[j].musicxml_path[1].ext = ".musicxml"

\* C14: when the discovered output is a .mxl archive and its extraction
\* fails, recognition still succeeds and returns the archive itself: the
\* file, with its content unchanged, is at the job's result path <job>.mxl
\* and no longer at the place it was found.
C14_ExtractionFailurePassesArchive ==
    \A j \in Started :
        run[j].extracted = "fail" =>
            LET result == [job |-> j, pre |-> FALSE, ext |-> ".mxl"] IN
              /\ run[j].omr = "ok"
              /\ run[j].found # None
              /\ run[j].found[1].name.ext = ".mxl"
              /\ run[j].musicxml_path = Some(result)
              /\ result \in DOMAIN outdir
              /\ outdir[result] = run[j].found[1].content
              /\ outdir[result].form = "mxl"
              /\ run[j].found[1].name # result =>
                    run[j].found[1].name \notin DOMAIN outdir

\* C14's case: the extraction of the archive Audiveris wrote for the
\* preprocessed image failed, and the run has stored <job>.mxl as the
\* job's musicxml_path.
C14_Witness ==
    \E j \in Started :
        /\ run[j].extracted = "fail"
        /\ run[j].found # None
        /\ run[j].found[1].name = [job |-> j, pre |-> TRUE, ext |-> ".mxl"]
        /\ job[j].musicxml_path = Some([job |-> j, pre |-> FALSE, ext |-> ".mxl"])

\* C15: a Failed job exposes no artifact: its response has has_musicxml
\* and has_pdf false and both download endpoints refuse, also when the job
\* failed after recognition had stored musicxml_path.
C15_FailedExposesNothing ==
    \A j \in DOMAIN job :
        job[j].status = FAILED =>
            /\ ~job_to_response(job[j]).has_musicxml
            /\ ~job_to_response(job[j]).has_pdf
            /\ download_pdf(j) # 200
            /\ download_musicxml(j) # 200

\* The message of pdf.py:81.
C16_timed_out == <<"PDF conversion timed out (exceeded 2 minutes)">>

\* C16: when an invocation of MuseScore exceeds its timeout, it is the last
\* invocation of an engine in the run, convert_to_pdf returns failure with
\* the timeout message, the job is never Completed, and the run that
\* returns leaves it Failed; the message the stage's Failed write stores is
\* the timeout message behind the stage's prefix.
C16_RenderingTimeoutFails ==
    \A j \in Started :
        \A i \in 1..Len(run[j].musescore) :
            run[j].musescore[i].kind = "timeout" =>
                /\ i = Len(run[j].musescore)
                /\ Cardinality(CallsOf(j, {"musescore"})) = i
                /\ calls[j][Len(calls[j])].op = "musescore"
                /\ run[j].pdf = "fail"
                /\ run[j].pc = "L133" => run[j].error = C16_timed_out
                /\ job[j].status # COMPLETED
                /\ run[j].pc = "done" => job[j].status = FAILED
                /\ (job[j].status = FAILED /\ ~run[j].raised) =>
                      job[j].error_message =
                          Some(C5_PDF_conversion_failed \o C16_timed_out)

\* C16's case: the first invocation of MuseScore exited without a PDF, the
\* second one timed out, and the run has returned with the job Failed.
C16_Witness ==
    \E j \in Started :
        /\ Len(run[j].musescore) = 2
        /\ run[j].musescore[1].kind = "exit"
        /\ run[j].musescore[2].kind = "timeout"
        /\ run[j].pc = "done" /\ ~run[j].raised
        /\ job[j].status = FAILED

\* An output file of the recognition engine is in the directory.
C17_OutputFilePresent(dir) ==
    \E n \in DOMAIN dir : n.ext \in {".mxl", ".musicxml", ".xml"}

\* C17: the exit code of an engine decides nothing.  When Audiveris has
\* exited, with whatever return code, and no file operation raises,
\* process_image succeeds if and only if an output file is discovered in
\* the output directory; when the last invocation of MuseScore has exited,
\* with whatever return code, convert_to_pdf succeeds if and only if
\* <job>.pdf exists afterwards.
C17_ExitCodeNotAuthoritative ==
    [][\A j \in Jobs :
         /\ \A rc \in {0, 1} :
              (/\ run[j].pc = "L163" /\ run'[j].pc = "L84"
               /\ run[j].returncode = <<rc>>
               /\ run'[j].error # <<"OMR processing error: ...">>) =>
                  (run'[j].omr = "ok" <=> C17_OutputFilePresent(outdir))
         /\ \A rc \in {0, 1} :
              (/\ run[j].pc = "L129" /\ run'[j].pc = "L133"
               /\ run'[j].musescore[Len(run'[j].musescore)].kind = "exit"
               /\ run'[j].musescore[Len(run'[j].musescore)].returncode = <<rc>>) =>
                  (run'[j].pdf = "ok" <=> j \in pdfdir')
      ]_vars

\* C17's case: both engines exited with a non-zero return code, both wrote
\* their output file, and both stages succeeded.
C17_Witness ==
    \E j \in Started :
        /\ run[j].returncode = <<1>> /\ run[j].produced
        /\ run[j].omr = "ok"
        /\ Len(run[j].musescore) = 1
        /\ run[j].musescore[1].returncode = <<1>>
        /\ run[j].musescore[1].output
        /\ run[j].pdf = "ok"
        /\ job[j].status = COMPLETED

\* C18: for every job record create_job made, the task has been enqueued
\* exactly once: its message is on the broker, or one run has taken it;
\* never neither, never more than one.
C18_EnqueuedExactlyOnce ==
    \A j \in DOMAIN job \cap NewIds :
        Cardinality({m \in queue : m.job_id = j})
            + (IF run[j].pc # "idle" THEN 1 ELSE 0) = 1

\* C19: the status of a job row only goes from Pending to Processing, from
\* Processing to Processing, from Processing to Completed and from
\* Processing to Failed.
C19_StatusTransitions ==
    [][\A j \in DOMAIN job :
         j \in DOMAIN job' =>
            \/ job'[j] = job[j]
            \/ <<job[j].status, job'[j].status>> \in
                  {<<"pending", "processing">>, <<"processing", "processing">>,
                   <<"processing", "completed">>, <<"processing", "failed">>}
      ]_vars

\* C20: completed_at is set if and only if the status is Completed or
\* Failed; it is written only by the update that makes the status terminal,
\* and once set it never changes.
C20_CompletedAtOnce ==
    /\ [](\A j \in DOMAIN job :
            job[j].completed_at # None <=> job[j].status \in {"completed", "failed"})
    /\ [][\A j \in DOMAIN job :
            j \in DOMAIN job' =>
               /\ job[j].completed_at # None =>
                     job'[j].completed_at = job[j].completed_at
               /\ job'[j].completed_at # job[j].completed_at =>
                     /\ job[j].status \notin {"completed", "failed"}
                     /\ job'[j].status \in {"completed", "failed"}
         ]_vars

\* C20's case: the run of a job has made it Failed after other writes, and
\* completed_at is the time of that write.
C20_Witness ==
    \E j \in Started :
        /\ job[j].status = FAILED
        /\ Len(writes[j]) >= 3
        /\ job[j].completed_at = Some(clock[j])
        /\ run[j].pc = "done"

\* C21: a job has a non-empty error_message if and only if its status is
\* Failed, and an error_message, once stored, is never cleared or changed.
C21_ErrorMessageOnlyOnFailed ==
    /\ [](\A j \in DOMAIN job :
            (job[j].error_message # <<>> /\ job[j].error_message[1] # <<>>)
                <=> job[j].status = "failed")
    /\ [][\A j \in DOMAIN job :
            (j \in DOMAIN job' /\ job[j].error_message # <<>>) =>
                job'[j].error_message = job[j].error_message
         ]_vars

\* C21's case: the transposition of a job failed and its Failed write
\* stored the message of that stage.
C21_Witness ==
    \E j \in Started :
        /\ job[j].status = FAILED
        /\ run[j].transpose = "fail" /\ ~run[j].raised
        /\ job[j].error_message =
              Some(C5_Transposition_failed \o <<"Transposition error: ...">>)

\* The job row of j asks for no transposition.
NoTransposeRequest(j) ==
    /\ job[j].transpose_semitones = <<>>
    /\ job[j].transpose_from_key = <<>>
    /\ job[j].transpose_to_key = <<>>

\* The progress values the run of j has written, in order.
ProgressWritten(j) == [i \in 1..Len(writes[j]) |-> writes[j][i].progress]

\* The run of j has written progress p.
Wrote(j, p) == \E i \in 1..Len(writes[j]) : writes[j][i].progress = p

\* C22: in the run of a job with no transposition request neither 55 nor
\* 70 is written as progress: the write after 50 is 75 (or the Failed write
\* of the run).
C22_NoTransposeCheckpoints ==
    \A j \in Started :
        NoTransposeRequest(j) =>
            /\ ~Wrote(j, 55)
            /\ ~Wrote(j, 70)
            /\ \A i \in 1..Len(writes[j]) - 1 :
                  writes[j][i].progress = 50 =>
                      \/ writes[j][i + 1].progress = 75
                      \/ writes[j][i + 1].status = "failed"

\* C23: the checkpoints are ordered with the stages.  Audiveris is invoked
\* only after 10 was written; 50 is written only after recognition
\* succeeded, and with it the path recognition returned; 55 is written
\* only for a job with a transposition request, and the transposition is
\* invoked only after it; MuseScore is invoked only after 75 was written;
\* 100 is written only after rendering succeeded, with status Completed,
\* and Completed only with 100; a Completed run that transposed has written
\* exactly 0, 10, 50, 55, 70, 75, 100.
C23_CheckpointsOrdered ==
    \A j \in Started :
        /\ CallsOf(j, {"audiveris"}) # {} => Wrote(j, 10)
        /\ Wrote(j, 50) =>
              /\ run[j].omr = "ok"
              /\ run[j].musicxml_path # <<>>
              /\ job[j].musicxml_path = run[j].musicxml_path
        /\ job[j].musicxml_path # <<>> => Wrote(j, 50)
        /\ Wrote(j, 55) => ~NoTransposeRequest(j)
        /\ CallsOf(j, {"transpose_by_semitones", "transpose_by_key"}) # {} =>
              Wrote(j, 55)
        /\ CallsOf(j, {"musescore"}) # {} => Wrote(j, 75)
        /\ \A i \in 1..Len(writes[j]) :
              /\ writes[j][i].progress = 100 =>
                    run[j].pdf = "ok" /\ writes[j][i].status = "completed"
              /\ writes[j][i].status = "completed" => writes[j][i].progress = 100
        /\ (job[j].status = "completed" /\ run[j].transpose = "ok") =>
              ProgressWritten(j) = <<0, 10, 50, 55, 70, 75, 100>>

\* C23's case: a run with a transposition has completed its job.
C23_Witness ==
    \E j \in Started :
        /\ job[j].status = COMPLETED /\ run[j].pc = "done"
        /\ run[j].transpose = "ok"
        /\ Len(calls[j]) = 3
        /\ ProgressWritten(j) = <<0, 10, 50, 55, 70, 75, 100>>

\* The columns of a row that only the run of process_score_task writes.
C24_RunColumns(row) ==
    <<row.status, row.progress, row.error_message, row.musicxml_path,
      row.pdf_path, row.completed_at>>

\* C24: every step of an HTTP handler leaves status, progress,
\* error_message, musicxml_path, pdf_path and completed_at of every existing
\* job as they are, the commit of celery_task_id included, whatever the
\* worker committed before it; these columns change only in a step of the
\* job's run.
C24_OnlyTheRunWritesStatus ==
    [][\A j \in DOMAIN job :
         j \in DOMAIN job' =>
            /\ req' # req => C24_RunColumns(job'[j]) = C24_RunColumns(job[j])
            /\ C24_RunColumns(job'[j]) # C24_RunColumns(job[j]) =>
                  run'[j] # run[j] /\ req' = req
      ]_vars

\* C24's case: the worker had committed Processing with progress 10 and
\* the handler's object still held Pending when create_job committed
\* celery_task_id.
C24_Witness ==
    /\ req.pc = "returned"
    /\ req.obj.status = "pending"
    /\ req.row_at_commit # <<>>
    /\ req.row_at_commit[1].status = "processing"
    /\ req.row_at_commit[1].progress = 10
    /\ job[req.job_id].celery_task_id = <<req.job_id>>
    /\ job[req.job_id].status = "processing"
    /\ job[req.job_id].progress = 10

\* The positions of the detected lines whose angle is strictly between -45
\* and 45 degrees.
C26_Surviving(lines) ==
    IF lines = <<>> THEN {}
    ELSE {i \in 1..Len(lines[1]) : lines[1][i] > -450 /\ lines[1][i] < 450}

\* Twice the median of the angles at the positions S: the sum of the lower
\* and the upper middle value, each found by counting.
C26_Median2(lines, S) ==
    LET a(i) == lines[1][i]
        n == Cardinality(S)
        lo == (n + 1) \div 2
        hi == n \div 2 + 1
        kth(k) == CHOOSE v \in {a(i) : i \in S} :
                     /\ Cardinality({i \in S : a(i) <= v}) >= k
                     /\ Cardinality({i \in S : a(i) >= v}) >= n + 1 - k
    IN  kth(lo) + kth(hi)

C27_Before(contours, i, j) ==
    \/ contours[i].area > contours[j].area
    \/ contours[i].area = contours[j].area /\ i < j

\* The 4-vertex contours among the 5 largest.
C27_Qualifying(contours) ==
    {i \in 1..Len(contours) :
        /\ contours[i].vertices = 4
        /\ Cardinality({j \in 1..Len(contours) : C27_Before(contours, j, i)}) < 5}

\* C27: when none of the 5 largest contours has a 4-vertex approximation
\* the image passes through the perspective step unchanged; otherwise the
\* first qualifying contour by decreasing area is the one used; and no
\* outcome of the step, an error while warping included, makes preprocess
\* return failure.
C27_PerspectiveNeverFails ==
    (pre.pc = "returned" /\ "perspective" \in DOMAIN pre) =>
        /\ pre.perspective # <<>> =>
              LET call == pre.perspective[1]
                  Q == C27_Qualifying(call.contours)
              IN  /\ Q = {} => /\ call.corrected.kind = "None"
                               /\ \A k \in 1..Len(pre.image) :
                                     pre.image[k] # "_correct_perspective"
                  /\ Q # {} => /\ call.corrected.kind # "None"
                               /\ call.corrected.used \in Q
                               /\ \A i \in Q \ {call.corrected.used} :
                                     C27_Before(call.contours, call.corrected.used, i)
        /\ ~pre.result[1].success => pre.raised_in # <<"_correct_perspective">>

\* The steps of preprocess that act on the image, and the flag of each.
C30_ImageSteps ==
    {"cvtColor", "_denoise", "_deskew", "_enhance_contrast", "_binarize",
     "_ensure_resolution"}

C30_Enabled(step) ==
    /\ step = "_denoise" => pre.enable.denoising
    /\ step = "_deskew" => pre.enable.deskew
    /\ step = "_binarize" => pre.enable.binarization

\* C30: the output file exists only once the image was loaded and every
\* enabled step has been applied, the perspective step having returned when
\* it is enabled; and whenever preprocess has returned failure, after
\* cv2.imread returned None or a step raised, no output file has been
\* written and the value returned carries an error message, no exception
\* leaving preprocess.
C30_NothingWrittenOnFailure ==
    "written" \in DOMAIN pre =>
        /\ pre.written =>
              /\ pre.raised_in = <<>>
              /\ \A step \in C30_ImageSteps \cup {"imread"} :
                    C30_Enabled(step) =>
                        \E k \in 1..Len(pre.image) : pre.image[k] = step
              /\ pre.enable.perspective_correction => pre.perspective # <<>>
        /\ pre.raised_in # <<>> => pre.pc \in {"L136", "returned"}
        /\ pre.pc = "returned" =>
              /\ pre.result # <<>>
              /\ pre.result[1].success <=> pre.written
              /\ ~pre.result[1].success => pre.result[1].error # ""
              /\ pre.raised_in # <<>> => ~pre.result[1].success

\* C30's case: every step before it succeeded, _ensure_resolution raised,
\* and preprocess has returned the error with nothing written.
C30_Witness ==
    /\ "written" \in DOMAIN pre
    /\ pre.pc = "returned"
    /\ pre.raised_in = <<"_ensure_resolution">>
    /\ Len(pre.image) >= 6
    /\ ~pre.result[1].success
    /\ ~pre.written

\* _order_points has returned the ordering of 4 points.
C28_Ordered == pre.pc = "returned" /\ "points" \in DOMAIN pre

\* The corner p of the ordering has the least (sign 1) or the greatest
\* (sign -1) value of a*x + b*y among the 4 points.
C28_Extreme(p, a, b, sign) ==
    \A i \in 1..4 :
        sign * (a * p[1] + b * p[2]) <= sign * (a * pre.points[i][1] + b * pre.points[i][2])

\* C28: of every 4 points, the ordering's top-left has minimum x+y, its
\* bottom-right maximum x+y, its top-right minimum x-y and its bottom-left
\* maximum x-y.
C28_CornersBySumAndDifference ==
    C28_Ordered =>
        LET rect == pre.rect[1]
        IN  /\ C28_Extreme(rect[1], 1, 1, 1)
            /\ C28_Extreme(rect[3], 1, 1, -1)
            /\ C28_Extreme(rect[2], 1, -1, 1)
            /\ C28_Extreme(rect[4], 1, -1, -1)

\* C28, amended: top-left has minimum x+y, bottom-right maximum x+y,
\* top-right minimum y-x (the maximum of x-y) and bottom-left maximum y-x
\* (the minimum of x-y); every corner is one of the 4 points, and among
\* points with the same extreme value the first of the 4 in the order given
\* is taken.
C28_CornersBySumAndYMinusX ==
    C28_Ordered =>
        LET rect == pre.rect[1]
            first(p, a, b, sign) ==
                \E i \in 1..4 :
                    /\ pre.points[i] = p
                    /\ \A j \in 1..(i - 1) : ~C28_Extreme(pre.points[j], a, b, sign)
        IN  /\ C28_Extreme(rect[1], 1, 1, 1) /\ first(rect[1], 1, 1, 1)
            /\ C28_Extreme(rect[3], 1, 1, -1) /\ first(rect[3], 1, 1, -1)
            /\ C28_Extreme(rect[2], -1, 1, 1) /\ first(rect[2], -1, 1, 1)
            /\ C28_Extreme(rect[4], -1, 1, -1) /\ first(rect[4], -1, 1, -1)

\* C28's case: the corners of an upright square, given in another order,
\* come out as top-left, top-right, bottom-right, bottom-left (y grows
\* downwards).
C28_Witness ==
    /\ C28_Ordered
    /\ pre.points = << <<2, 2>>, <<0, 2>>, <<2, 0>>, <<0, 0>> >>
    /\ pre.rect[1] = << <<0, 0>>, <<2, 0>>, <<2, 2>>, <<0, 2>> >>

\* C29: _ensure_resolution never returns a smaller width or height; the
\* image it returns is larger than its argument, in width or in height, if
\* and only if the width is below 11 inches at the target DPI (the
\* estimated DPI, width / 11, is below the target), and otherwise it is the
\* argument itself.
C29_UpscaledIffBelowTarget ==
    (pre.pc = "returned" /\ "target_dpi" \in DOMAIN pre) =>
        LET r == pre.result[1]
            below == pre.width < 11 * pre.target_dpi
            larger == r.width > pre.width \/ r.height > pre.height
        IN  /\ r.width >= pre.width
            /\ r.height >= pre.height
            /\ larger <=> below
            /\ ~below => r = [image |-> "image", width |-> pre.width,
                              height |-> pre.height]

\* The transposition options of the request fail validation: an offset
\* outside [-12, 12], or exactly one of the two keys.
C31_Invalid(form) ==
    \/ /\ form.transpose_semitones # <<>>
       /\ (form.transpose_semitones[1] < -12 \/ form.transpose_semitones[1] > 12)
    \/ (form.transpose_from_key # <<>>) # (form.transpose_to_key # <<>>)

\* C31: a create_job request whose semitone offset is outside [-12, 12] or
\* that carries exactly one of from_key and to_key is rejected, and the
\* step that rejects a request saves no upload file, creates no job record
\* and enqueues no task: afterwards there is still none for the request.
C31_RejectedRequestChangesNothing ==
    /\ [](req.pc # "idle" =>
            /\ C31_Invalid(req.form) => req.pc = "rejected"
            /\ req.pc = "rejected" =>
                  /\ req.job_id \notin DOMAIN job
                  /\ req.job_id \notin uploads
                  /\ \A m \in queue : m.job_id # req.job_id)
    /\ [][req'.pc = "rejected" =>
             /\ uploads' = uploads
             /\ job' = job
             /\ queue' = queue]_vars

\* C31's case: a request with a valid file, an offset of 13 semitones and
\* a source key without a target key has been rejected.
C31_Witness ==
    /\ req.pc = "rejected"
    /\ req.form.file.ext = "png" /\ ~req.form.file.too_large
    /\ req.form.transpose_semitones = <<13>>
    /\ req.form.transpose_from_key = <<"C">>
    /\ req.form.transpose_to_key = <<>>

\* C32: once delete_job has returned for a job and no run of
\* process_score_task for it is under way or still to be delivered, the job
\* has no record and no upload, symbolic-score or PDF file in storage.
C32_DeletedJobLeavesNothing ==
    (/\ req.pc = "deleted"
     /\ run[req.job_id].pc \notin ActivePc
     /\ \A m \in queue : m.job_id # req.job_id) =>
        /\ req.job_id \notin DOMAIN job
        /\ req.job_id \notin uploads
        /\ req.job_id \notin pdfdir
        /\ \A n \in DOMAIN outdir :
              n.ext \in {".mxl", ".musicxml", ".xml"} => n.job # req.job_id

\* The file <input stem><ext> is in the directory probed.
C33_Exists(ext) ==
    [job |-> pre.input_stem.job, pre |-> pre.input_stem.pre, ext |-> ext]
        \in DOMAIN pre.dir

\* C33: output discovery selects <stem>.mxl if it exists, else
\* <stem>.musicxml if it exists, else <stem>.xml if it exists; the
\* directory is scanned only when none of the three exists, and the scan
\* then selects a file with an accepted extension if there is one.
C33_DiscoveryPriority ==
    (pre.pc = "L194" /\ "input_stem" \in DOMAIN pre) =>
        LET selected(ext) ==
                pre.output_file = <<[job |-> pre.input_stem.job,
                                     pre |-> pre.input_stem.pre, ext |-> ext]>>
            accepted == {n \in DOMAIN pre.dir : n.ext \in {".mxl", ".musicxml", ".xml"}}
        IN  /\ C33_Exists(".mxl") => selected(".mxl")
            /\ (~C33_Exists(".mxl") /\ C33_Exists(".musicxml")) => selected(".musicxml")
            /\ (~C33_Exists(".mxl") /\ ~C33_Exists(".musicxml") /\ C33_Exists(".xml"))
                  => selected(".xml")
            /\ pre.scanned <=>
                  ~(C33_Exists(".mxl") \/ C33_Exists(".musicxml") \/ C33_Exists(".xml"))
            /\ pre.scanned =>
                  /\ accepted = {} <=> pre.output_file = <<>>
                  /\ pre.output_file # <<>> => pre.output_file[1] \in accepted

\* C33's case: <stem>.musicxml and <stem>.xml exist, <stem>.mxl does not,
\* other files with accepted extensions are in the directory, and
\* <stem>.musicxml was selected without a scan.
C33_Witness ==
    /\ pre.pc = "L194" /\ "input_stem" \in DOMAIN pre
    /\ ~C33_Exists(".mxl") /\ C33_Exists(".musicxml") /\ C33_Exists(".xml")
    /\ \E n \in DOMAIN pre.dir : n.job = "j0"
    /\ pre.output_file # <<>> /\ pre.output_file[1].ext = ".musicxml"
    /\ pre.output_file[1].job = pre.input_stem.job
    /\ ~pre.scanned

\* _extract_mxl_to_musicxml has returned.
C34_Extracted == pre.pc = "returned" /\ "namelist" \in DOMAIN pre

\* The least of a non-empty set of positions.
C34_First(S) == CHOOSE i \in S : \A k \in S : i <= k

\* C34: for every member list, extraction selects the first member that is
\* not under META-INF, and it reports failure only when there is no such
\* member.
C34_FirstMemberOutsideMetadata ==
    C34_Extracted =>
        LET outside == {i \in 1..Len(pre.namelist) : pre.namelist[i][1] # "META-INF"}
            r == pre.result[1]
        IN  /\ r.ok => r.member = <<pre.namelist[C34_First(outside)]>>
            /\ ~r.ok => outside = {}

\* C34, amended: extraction selects the first member whose name ends with
\* .xml, does not start with META-INF and does not contain "container" in
\* any letter case, or, when every .xml member outside META-INF contains
\* "container", the first of those; it reports failure exactly when no
\* member outside META-INF ends with .xml or when opening the archive,
\* reading the member or writing the output raises.
C34_FirstXmlMemberNotContainer ==
    C34_Extracted =>
        LET name(i) == pre.namelist[i]
            X == {i \in 1..Len(pre.namelist) :
                     name(i)[Len(name(i))] = ".xml" /\ name(i)[1] # "META-INF"}
            P == {i \in X : \A k \in 1..Len(name(i)) :
                                 name(i)[k] \notin {"container", "Container"}}
            r == pre.result[1]
        IN  /\ r.ok <=> (X # {} /\ pre.fault = "none")
            /\ (r.ok /\ P # {}) => r.member = <<name(C34_First(P))>>
            /\ (r.ok /\ P = {}) => r.member = <<name(C34_First(X))>>

\* C34's case: the archive lists a mimetype member and a container-like
\* .xml file before the score, and the score was extracted.
C34_Witness ==
    /\ C34_Extracted
    /\ Len(pre.namelist) = 3
    /\ pre.namelist[1] = <<"mimetype">>
    /\ pre.namelist[2] = <<"Container", ".xml">>
    /\ pre.namelist[3] = <<"score", ".xml">>
    /\ pre.result[1] = [ok |-> TRUE, member |-> << <<"score", ".xml">> >>]

\* C35: artifacts are owned exclusively.  Of two jobs of one user, whose
\* output directory is shared, the recognition stage of one never selects
\* the symbolic-score file of the other, and the musicxml_path recorded for
\* a job names a file that exists and that the job's own recognition
\* produced.
C35_ArtifactOwnershipExclusive ==
    /\ \A j \in Jobs :
          run[j].found # None => run[j].found[1].content.by = j
    /\ \A j \in DOMAIN job :
          job[j].musicxml_path # None =>
             /\ job[j].musicxml_path[1] \in DOMAIN outdir
             /\ outdir[job[j].musicxml_path[1]].by = j

\* C36: of every 4 distinct points, _order_points returns a permutation:
\* each of the points fills exactly one of the four corner roles.
C36_OrderIsPermutation ==
    (pre.pc = "returned" /\ "rect" \in DOMAIN pre) =>
        \A i \in 1..4 :
            Cardinality({k \in 1..4 : pre.rect[1][k] = pre.points[i]}) = 1

\* C37: a password-reset token changes a password at most once: of the
\* confirm requests made with one token, whether one after the other or
\* both reading the token before either commits, at most one succeeds.
C37_TokenChangesPasswordOnce ==
    \A t \in {"t1", "t2"} :
        Cardinality({c \in DOMAIN confirm :
                        /\ confirm[c].pc = "returned"
                        /\ confirm[c].token = t}) <= 1

\* C38: in every reachable state a superuser is approved: after any
\* sequence of approve_user, update_user_approval, make_superuser and
\* revoke_superuser requests, is_superuser implies is_approved for every
\* user.
C38_SuperuserIsApproved ==
    \A id \in DOMAIN users : users[id].is_superuser => users[id].is_approved

====
